---------------------------- MODULE Spec2Model ----------------------------
(***************************************************************************)
(* Agent availability: baseline store, availability feed ingestion, date   *)
(* resolution and the 24-hour classification of agent_availability.py.     *)
(*                                                                         *)
(* Text is modelled at two levels.  Raw file content (a line, a csv field  *)
(* before normalisation) is a sequence of characters; a character is a     *)
(* one-element TLA+ string, or an "atom": a run of ordinary characters     *)
(* (no comma, no quote, no leading or trailing whitespace) written as one  *)
(* string, such as "D1" or "2026-01-31 06:00:00".  A Python str that has   *)
(* been normalised (a domain, an agent name, a date string) is a TLA+      *)
(* string, obtained with Str.                                              *)
(*                                                                         *)
(* Instants are whole hours counted from 2026-01-31 00:00:00.              *)
(***************************************************************************)
EXTENDS Integers, Sequences, FiniteSets, TLC

VARIABLES
    db,                 \* committed rows of the two baseline tables
    load_result,        \* the latest load_baseline_* call: its file and outcome
    pc,                 \* position of the program
    table_name,         \* get_baseline_agents: its argument
    baseline_agents,    \* calculate_availability: its first argument
    csv_path,           \* get_availability_records: the file behind its argument
    records,            \* get_availability_records: validated rows
    row_i,              \* get_availability_records: rows consumed by the loop
    availability_map,   \* get_availability_records: the local map being built
    avail_ret,          \* get_availability_records: the value returned
    error,              \* the exception that ended the latest call, if any
    clock,              \* the wall clock, datetime.now()
    now,                \* is_within_last_24_hours: its local `now`
    results,            \* calculate_availability: results
    domains_left,       \* calculate_availability: domains not yet iterated
    domain,             \* calculate_availability: outer loop variable
    agents_left,        \* calculate_availability: agents not yet iterated
    agent_name,         \* calculate_availability: inner loop variable
    domain_results,     \* calculate_availability: domain_results
    validation,         \* validate_*_csv called alone: its file and outcome
    windows_csv,        \* check_availability: the file behind windows_csv
    linux_csv,          \* check_availability: the file behind linux_csv
    windows_baseline,   \* check_availability: windows_baseline
    linux_baseline,     \* check_availability: linux_baseline
    windows_availability, \* check_availability: windows_availability
    linux_availability, \* check_availability: linux_availability
    windows_results,    \* check_availability: windows_results
    linux_results,      \* check_availability: linux_results
    outputs,            \* the reports emitted: console, xlsx, docx
    date_ret,           \* parse_available_date called alone: argument, outcome
    cwd,                \* the working directory: the files in it, by name
    supplied,           \* main: the paths get_input_path returned
    main_windows_csv,   \* main, option 3: windows_csv
    main_linux_csv,     \* main, option 3: linux_csv
    created,            \* main: the names it has opened for writing
    unlinked            \* main: the names it has unlinked

validation_vars == <<validation>>
main_vars == <<cwd, supplied, main_windows_csv, main_linux_csv, created, unlinked>>
check_vars == <<windows_csv, linux_csv, windows_baseline, linux_baseline,
                windows_availability, linux_availability, windows_results,
                linux_results, outputs>>

vars == <<db, load_result, pc, table_name, baseline_agents, csv_path, records,
          row_i, availability_map, avail_ret, error, clock, now, results,
          domains_left, domain, agents_left, agent_name, domain_results,
          validation, windows_csv, linux_csv, windows_baseline, linux_baseline,
          windows_availability, linux_availability, windows_results,
          linux_results, outputs,
          date_ret, cwd, supplied, main_windows_csv, main_linux_csv, created,
          unlinked>>

-----------------------------------------------------------------------------
(* Bounds of the model *)

\* data lines of an availability file
MaxRows == 2
\* data rows of a baseline file
MaxBaselineRows == 2
\* hours the clock may advance during one calculate_availability call
MaxTicks == 1
MaxPad == 1

-----------------------------------------------------------------------------
(* Program constants *)

WINDOWS_TABLE == "windows_agents"
LINUX_TABLE == "linux_agents"
Tables == {WINDOWS_TABLE, LINUX_TABLE}

BASELINE_COLUMNS == <<"Domain", "Agent Name">>
AVAILABILITY_COLUMNS == <<"Domain", "Agent Name", "Last Available Date">>

\* timedelta(hours=24)
Window == 24

-----------------------------------------------------------------------------
(* Text *)

Quote == "\""
Apostrophe == "'"
Comma == ","
BOM == "<BOM>"
Whitespace == {" ", "\t", "\n", "\r"}

RECURSIVE Str(_)
\* the Python str made of the characters of s
Str(s) == IF s = <<>> THEN "" ELSE Head(s) \o Str(Tail(s))

RECURSIVE lstrip(_, _)
lstrip(s, chars) ==
    IF s # <<>> /\ Head(s) \in chars THEN lstrip(Tail(s), chars) ELSE s

RECURSIVE rstrip(_, _)
rstrip(s, chars) ==
    IF s # <<>> /\ s[Len(s)] \in chars
    THEN rstrip(SubSeq(s, 1, Len(s) - 1), chars)
    ELSE s

\* str.strip(chars); str.strip() is strip(s, Whitespace)
strip(s, chars) == rstrip(lstrip(s, chars), chars)

\* the expression  x.strip().strip('"').strip("'")
strip_field(s) == strip(strip(strip(s, Whitespace), {Quote}), {Apostrophe})

\* the expression  x.strip().strip(BOM).strip('"').strip("'")
strip_header(s) ==
    strip(strip(strip(strip(s, Whitespace), {BOM}), {Quote}), {Apostrophe})

\* str.lower() of one character or atom
LowerChar(c) ==
    CASE c = "Domain" -> "domain"
      [] c = "DOMAIN" -> "domain"
      [] c = "Agent Name" -> "agent name"
      [] c = "Last Available Date" -> "last available date"
      [] c = "Wrong" -> "wrong"
      [] c = "Headers" -> "headers"
      [] OTHER -> c

\* no change of case
lower_unchanged(s) == s

lower(s) == [i \in 1..Len(s) |-> LowerChar(s[i])]

RECURSIVE split(_, _, _)
\* str.split(','): fields of s from position i on, cur the field being read
split(s, i, cur) ==
    IF i > Len(s) THEN <<cur>>
    ELSE IF s[i] = Comma THEN <<cur>> \o split(s, i + 1, <<>>)
    ELSE split(s, i + 1, Append(cur, s[i]))

RECURSIVE split_every_comma(_, _, _, _)
\* the loop with every comma ending a field, quoted or not
split_every_comma(line, i, current, in_quotes) ==
    IF i > Len(line) THEN <<current>>
    ELSE IF line[i] = Quote
         THEN split_every_comma(line, i + 1, current, ~in_quotes)
    ELSE IF line[i] = Comma
         THEN <<current>> \o split_every_comma(line, i + 1, <<>>, in_quotes)
    ELSE split_every_comma(line, i + 1, Append(current, line[i]), in_quotes)

RECURSIVE split_quoted(_, _, _, _)
\* the loop  for char in line  of validate_availability_csv
split_quoted(line, i, current, in_quotes) ==
    IF i > Len(line) THEN <<current>>
    ELSE IF line[i] = Quote
         THEN split_quoted(line, i + 1, current, ~in_quotes)
    ELSE IF line[i] = Comma /\ ~in_quotes
         THEN <<current>> \o split_quoted(line, i + 1, <<>>, in_quotes)
    ELSE split_quoted(line, i + 1, Append(current, line[i]), in_quotes)

RECURSIVE join(_, _)
\* sep.join(parts), parts and the result being sequences of characters
join(parts, sep) ==
    IF parts = <<>> THEN <<>>
    ELSE IF Len(parts) = 1 THEN parts[1]
    ELSE parts[1] \o sep \o join(Tail(parts), sep)


-----------------------------------------------------------------------------
(* Errors.  A call either returns or raises; a raised exception is a       *)
(* record naming its kind and, where the message carries one, the row.     *)

NoError == [kind |-> "", row |-> 0]
Raise(kind, row) == [kind |-> kind, row |-> row]

\* the kinds raised as CSVValidationError
CSVValidationError ==
    {"FileNotFound", "EmptyFile", "NoHeaders", "HeaderMismatch", "EmptyField",
     "MalformedRow", "NoRecords", "InvalidDateFormat"}

-----------------------------------------------------------------------------
(* Availability CSV.  A file is [exists, bom, lines]: whether the path     *)
(* exists, whether the bytes start with a byte-order mark (removed by the  *)
(* utf-8-sig decoder), and the decoded lines without their terminators.    *)

NoFile == [exists |-> FALSE, bom |-> FALSE, lines |-> <<>>]
\* the size test left out
st_size_is_zero_unchecked(file) == FALSE

\* csv_path.stat().st_size == 0
st_size_is_zero(file) == ~file.bom /\ file.lines = <<>>

\* the row with the date put back as it was split, nothing trimmed and no
\* space added
availability_row_keeps_spacing(line, row_num) ==
    LET parts == split_quoted(line, 1, <<>>, FALSE) IN
    IF Len(parts) < 3
    THEN [error |-> Raise("MalformedRow", row_num), record |-> <<>>]
    ELSE LET dom == Str(strip_field(parts[1]))
             agent == Str(strip_field(parts[2]))
             available_date ==
                 join([i \in 1..(Len(parts) - 2) |-> parts[i + 2]], <<Comma>>)
         IN IF agent = "" \/ dom = ""
            THEN [error |-> Raise("EmptyField", row_num), record |-> <<>>]
            ELSE [error |-> NoError,
                  record |-> <<[domain |-> dom, agent_name |-> agent,
                                available_date_str |-> available_date]>>]

\* one data line that passed the blank test: the record or the exception
availability_row(line, row_num) ==
    LET parts == split_quoted(line, 1, <<>>, FALSE) IN
    IF Len(parts) < 3
    THEN [error |-> Raise("MalformedRow", row_num), record |-> <<>>]
    ELSE LET dom == Str(strip_field(parts[1]))
             agent == Str(strip_field(parts[2]))
             available_date ==
                 join([i \in 1..(Len(parts) - 2) |-> strip_field(parts[i + 2])],
                      <<Comma, " ">>)
         IN IF agent = "" \/ dom = ""
            THEN [error |-> Raise("EmptyField", row_num), record |-> <<>>]
            ELSE [error |-> NoError,
                  record |-> <<[domain |-> dom, agent_name |-> agent,
                                available_date_str |-> available_date]>>]

RECURSIVE availability_rows_numbering_read_lines(_, _)
\* the loop with blank lines left out of the row count
availability_rows_numbering_read_lines(lines, i) ==
    IF i > Len(lines) THEN [error |-> NoError, records |-> <<>>]
    ELSE LET line == strip(lines[i], Whitespace) IN
         IF line = <<>> THEN availability_rows_numbering_read_lines(lines, i + 1)
         ELSE LET blank == {j \in 2..i : strip(lines[j], Whitespace) = <<>>}
                  row == availability_row(line, i - Cardinality(blank))
              IN
              IF row.error # NoError
              THEN [error |-> row.error, records |-> <<>>]
              ELSE LET rest == availability_rows_numbering_read_lines(lines, i + 1) IN
                   IF rest.error # NoError THEN rest
                   ELSE [error |-> NoError, records |-> row.record \o rest.records]

RECURSIVE availability_rows(_, _)
\* the loop  for row_num, line in enumerate(lines[1:], start=2)  from lines[i] on
availability_rows(lines, i) ==
    IF i > Len(lines) THEN [error |-> NoError, records |-> <<>>]
    ELSE LET line == strip(lines[i], Whitespace) IN
         IF line = <<>> THEN availability_rows(lines, i + 1)
         ELSE LET row == availability_row(line, i) IN
              IF row.error # NoError
              THEN [error |-> row.error, records |-> <<>>]
              ELSE LET rest == availability_rows(lines, i + 1) IN
                   IF rest.error # NoError THEN rest
                   ELSE [error |-> NoError, records |-> row.record \o rest.records]

validate_availability_csv(file) ==
    IF ~file.exists
    THEN [error |-> Raise("FileNotFound", 0), records |-> <<>>]
    ELSE IF st_size_is_zero(file)
    THEN [error |-> NoError, records |-> <<>>]
    ELSE IF file.lines = <<>>
    THEN [error |-> Raise("EmptyFile", 0), records |-> <<>>]
    ELSE LET header_line == strip(file.lines[1], Whitespace)
             cols == split(header_line, 1, <<>>)
             headers == [i \in 1..Len(cols) |-> strip_header(cols[i])]
             headers_normalized ==
                 [i \in 1..Len(headers) |-> Str(lower(strip_header(headers[i])))]
             expected_normalized ==
                 [i \in 1..Len(AVAILABILITY_COLUMNS) |->
                     Str(lower(<<AVAILABILITY_COLUMNS[i]>>))]
         IN IF headers_normalized # expected_normalized
            THEN [error |-> Raise("HeaderMismatch", 0), records |-> <<>>,
                  got |-> [i \in 1..Len(headers) |-> Str(headers[i])]]
            ELSE availability_rows(file.lines, 2)

-----------------------------------------------------------------------------
(* Dates *)

date_formats ==
    << "%Y-%m-%d %H:%M:%S",
       "%b %d, %Y @ %H:%M:%S.%f",
       "%b %d, %Y @ %H:%M:%S",
       "%B %d, %Y @ %H:%M:%S.%f",
       "%B %d, %Y @ %H:%M:%S",
       "%d-%m-%Y %H:%M:%S",
       "%m/%d/%Y %H:%M:%S",
       "%Y/%m/%d %H:%M:%S" >>

\* datetime.strptime on the date strings of the model: <<format, string,
\* instant>> for every pair that matches; any other pair is a ValueError.
StrptimeTable ==
    { <<"%Y-%m-%d %H:%M:%S", "2026-01-31 05:00:00", 5>>,
      <<"%Y-%m-%d %H:%M:%S", "2026-01-31 06:00:00", 6>>,
      <<"%Y-%m-%d %H:%M:%S", "2026-02-01 06:00:00", 30>>,
      <<"%b %d, %Y @ %H:%M:%S.%f", "Jan 31, 2026 @ 06:00:00.000", 6>>,
      <<"%b %d, %Y @ %H:%M:%S.%f", "Feb 01, 2026 @ 06:00:00.000", 30>>,
      <<"%b %d, %Y @ %H:%M:%S", "Jan 31, 2026 @ 06:00:00", 6>>,
      <<"%B %d, %Y @ %H:%M:%S.%f", "January 31, 2026 @ 06:00:00.000", 6>>,
      <<"%B %d, %Y @ %H:%M:%S", "January 31, 2026 @ 06:00:00", 6>>,
      <<"%d-%m-%Y %H:%M:%S", "31-01-2026 06:00:00", 6>>,
      <<"%m/%d/%Y %H:%M:%S", "01/31/2026 06:00:00", 6>>,
      <<"%Y/%m/%d %H:%M:%S", "2026/01/31 06:00:00", 6>>,
      <<"%b %d, %Y @ %H:%M:%S.%f", "May 01, 2026 @ 06:00:00.000", 2166>>,
      <<"%B %d, %Y @ %H:%M:%S.%f", "May 01, 2026 @ 06:00:00.000", 2166>>,
      <<"%b %d, %Y @ %H:%M:%S", "May 01, 2026 @ 06:00:00", 2166>>,
      <<"%B %d, %Y @ %H:%M:%S", "May 01, 2026 @ 06:00:00", 2166>>,
      <<"%B %d, %Y @ %H:%M:%S", "january 31, 2026 @ 06:00:00", 6>>,
      <<"%Y-%m-%d %H:%M:%S", "2026-1-31 6:0:0", 6>>,
      <<"%Y-%m-%d %H:%M:%S", "2026-01-31  06:00:00", 6>> }

\* the instants strptime(text, fmt) returns: one, or none (ValueError)
strptime(text, fmt) == {e[3] : e \in {x \in StrptimeTable : x[1] = fmt /\ x[2] = text}}

\* the loop given up after the one format date_formats[k]
try_formats_one_only(text, k) ==
    IF strptime(text, date_formats[k]) # {}
    THEN [error |-> NoError,
          value |-> CHOOSE t \in strptime(text, date_formats[k]) : TRUE]
    ELSE [error |-> Raise("InvalidDateFormat", 0), value |-> 0]

RECURSIVE try_formats(_, _)
\* the loop  for fmt in date_formats  from date_formats[k] on
try_formats(text, k) ==
    IF k > Len(date_formats)
    THEN [error |-> Raise("InvalidDateFormat", 0), value |-> 0]
    ELSE IF strptime(text, date_formats[k]) # {}
         THEN [error |-> NoError,
               value |-> CHOOSE t \in strptime(text, date_formats[k]) : TRUE]
         ELSE try_formats(text, k + 1)

parse_available_date(date_str) == try_formats(Str(strip(date_str, Whitespace)), 1)

-----------------------------------------------------------------------------
(* get_availability_records: the index *)

EmptyMap == [k \in {} |-> 0]
NotReturned == [returned |-> FALSE, map |-> EmptyMap]

\* map with map[key] = value (a dict assignment)
Assign(map, key, value) ==
    [k \in (DOMAIN map) \cup {key} |-> IF k = key THEN value ELSE map[k]]

update_index_last_wins(map, key, available_date) == Assign(map, key, available_date)

\* if key not in availability_map or available_date > availability_map[key]
update_index(map, key, available_date) ==
    IF key \notin DOMAIN map \/ available_date > map[key]
    THEN Assign(map, key, available_date)
    ELSE map

index_row_skips_bad_date(map, rec) ==
    LET parsed == parse_available_date(rec.available_date_str) IN
    IF parsed.error # NoError
    THEN [error |-> NoError, map |-> map]
    ELSE [error |-> NoError,
          map |-> update_index(map, <<rec.agent_name, rec.domain>>, parsed.value)]

\* one iteration of  for domain, agent_name, available_date_str in records
index_row(map, rec) ==
    LET parsed == parse_available_date(rec.available_date_str) IN
    IF parsed.error # NoError
    THEN [error |-> parsed.error, map |-> map]
    ELSE [error |-> NoError,
          map |-> update_index(map, <<rec.agent_name, rec.domain>>, parsed.value)]

-----------------------------------------------------------------------------
(* calculate_availability: the classification *)

is_within_last_24_hours_exclusive(available_date, clock_read) ==
    available_date > clock_read - Window

\* clock_read is the value datetime.now() returns inside the call
is_within_last_24_hours(available_date, clock_read) ==
    LET twenty_four_hours_ago == clock_read - Window IN
    available_date >= twenty_four_hours_ago

\* the dict literal domain_results starts from
new_domain_results(agents) ==
    [total |-> Cardinality(agents),
     available |-> {},
     not_available |-> {},
     last_available_dates |-> EmptyMap]

classify_agent_drops_missing(dr, agent, dom, map, clock_read) ==
    LET key == <<agent, dom>> IN
    IF key \notin DOMAIN map THEN dr
    ELSE IF is_within_last_24_hours(map[key], clock_read)
    THEN [dr EXCEPT !.available = @ \cup {agent},
                    !.last_available_dates = Assign(@, agent, map[key])]
    ELSE [dr EXCEPT !.not_available = @ \cup {agent},
                    !.last_available_dates = Assign(@, agent, map[key])]

classify_agent_forgets_stale_date(dr, agent, dom, map, clock_read) ==
    LET key == <<agent, dom>> IN
    IF key \notin DOMAIN map
    THEN [dr EXCEPT !.not_available = @ \cup {agent}]
    ELSE IF is_within_last_24_hours(map[key], clock_read)
    THEN [dr EXCEPT !.available = @ \cup {agent},
                    !.last_available_dates = Assign(@, agent, map[key])]
    ELSE [dr EXCEPT !.not_available = @ \cup {agent}]

\* the body with the agent looked up by name alone, under any domain
classify_agent_under_any_domain(dr, agent, dom, map, clock_read) ==
    LET keys == {k \in DOMAIN map : k[1] = agent} IN
    IF keys = {}
    THEN [dr EXCEPT !.not_available = @ \cup {agent}]
    ELSE LET key == IF <<agent, dom>> \in keys THEN <<agent, dom>>
                    ELSE CHOOSE k \in keys : TRUE
         IN IF is_within_last_24_hours(map[key], clock_read)
            THEN [dr EXCEPT !.available = @ \cup {agent},
                            !.last_available_dates = Assign(@, agent, map[key])]
            ELSE [dr EXCEPT !.not_available = @ \cup {agent},
                            !.last_available_dates = Assign(@, agent, map[key])]

\* the body of  for agent_name in agents
classify_agent(dr, agent, dom, map, clock_read) ==
    LET key == <<agent, dom>> IN
    IF key \notin DOMAIN map
    THEN [dr EXCEPT !.not_available = @ \cup {agent}]
    ELSE IF is_within_last_24_hours(map[key], clock_read)
    THEN [dr EXCEPT !.available = @ \cup {agent},
                    !.last_available_dates = Assign(@, agent, map[key])]
    ELSE [dr EXCEPT !.not_available = @ \cup {agent},
                    !.last_available_dates = Assign(@, agent, map[key])]

-----------------------------------------------------------------------------
(* Baseline CSV.  A file is [exists, bom, rows]: rows are the rows          *)
(* csv.reader yields, each a sequence of raw fields; a blank line is <<>>.  *)

baseline_size_is_zero(file) == ~file.bom /\ file.rows = <<>>

\* the indexes i of fieldnames whose name is key and that the row reaches or not
key_positions(fieldnames, key) ==
    {i \in 1..Len(fieldnames) : Str(fieldnames[i]) = key}

\* row[key].strip() on the dict DictReader builds from fieldnames and row:
\* a missing key is a KeyError, a key the row is too short for holds None
dict_field(fieldnames, row, key) ==
    LET at == key_positions(fieldnames, key) IN
    IF at = {} THEN [error |-> Raise("KeyError", 0), value |-> ""]
    ELSE LET i == CHOOSE j \in at : \A k \in at : k <= j IN
         IF i > Len(row)
         THEN [error |-> Raise("AttributeError", 0), value |-> ""]
         ELSE [error |-> NoError, value |-> Str(strip(row[i], Whitespace))]

RECURSIVE baseline_rows(_, _, _, _)
\* the loop  for row_num, row in enumerate(reader, start=2)  from rows[i] on
baseline_rows(fieldnames, rows, i, row_num) ==
    IF i > Len(rows) THEN [error |-> NoError, records |-> <<>>]
    ELSE IF rows[i] = <<>> THEN baseline_rows(fieldnames, rows, i + 1, row_num)
    ELSE LET dom == dict_field(fieldnames, rows[i], "Domain")
             agent == dict_field(fieldnames, rows[i], "Agent Name")
         IN IF dom.error # NoError THEN [error |-> dom.error, records |-> <<>>]
            ELSE IF agent.error # NoError
            THEN [error |-> agent.error, records |-> <<>>]
            ELSE IF dom.value = "" \/ agent.value = ""
            THEN [error |-> Raise("EmptyField", row_num), records |-> <<>>]
            ELSE LET rest == baseline_rows(fieldnames, rows, i + 1, row_num + 1) IN
                 IF rest.error # NoError THEN rest
                 ELSE [error |-> NoError,
                       records |-> <<<<dom.value, agent.value>>>> \o rest.records]

\* validate_baseline_csv without its header check
validate_baseline_csv_unchecked_header(file) ==
    IF ~file.exists
    THEN [error |-> Raise("FileNotFound", 0), records |-> <<>>]
    ELSE IF baseline_size_is_zero(file)
    THEN [error |-> Raise("EmptyFile", 0), records |-> <<>>]
    ELSE IF file.rows = <<>>
    THEN [error |-> Raise("NoHeaders", 0), records |-> <<>>]
    ELSE LET parsed == baseline_rows(file.rows[1], file.rows, 2, 2) IN
         IF parsed.error # NoError THEN parsed
         ELSE IF parsed.records = <<>>
         THEN [error |-> Raise("NoRecords", 0), records |-> <<>>]
         ELSE parsed

\* validate_baseline_csv without its  if not records  check
validate_baseline_csv_allows_no_records(file) ==
    IF ~file.exists
    THEN [error |-> Raise("FileNotFound", 0), records |-> <<>>]
    ELSE IF baseline_size_is_zero(file)
    THEN [error |-> Raise("EmptyFile", 0), records |-> <<>>]
    ELSE IF file.rows = <<>>
    THEN [error |-> Raise("NoHeaders", 0), records |-> <<>>]
    ELSE IF [i \in 1..Len(file.rows[1]) |->
                Str(strip(strip(file.rows[1][i], Whitespace), {BOM}))]
            # BASELINE_COLUMNS
    THEN [error |-> Raise("HeaderMismatch", 0), records |-> <<>>]
    ELSE baseline_rows(file.rows[1], file.rows, 2, 2)

validate_baseline_csv(file) ==
    IF ~file.exists
    THEN [error |-> Raise("FileNotFound", 0), records |-> <<>>]
    ELSE IF baseline_size_is_zero(file)
    THEN [error |-> Raise("EmptyFile", 0), records |-> <<>>]
    ELSE IF file.rows = <<>>
    THEN [error |-> Raise("NoHeaders", 0), records |-> <<>>]
    ELSE LET headers == file.rows[1]
             normalized_headers ==
                 [i \in 1..Len(headers) |->
                     Str(strip(strip(headers[i], Whitespace), {BOM}))]
         IN IF normalized_headers # BASELINE_COLUMNS
            THEN [error |-> Raise("HeaderMismatch", 0), records |-> <<>>]
            ELSE LET parsed == baseline_rows(headers, file.rows, 2, 2) IN
                 IF parsed.error # NoError THEN parsed
                 ELSE IF parsed.records = <<>>
                 THEN [error |-> Raise("NoRecords", 0), records |-> <<>>]
                 ELSE parsed

-----------------------------------------------------------------------------
(* Baseline store.  A table is the set of its committed (domain,           *)
(* agent_name) rows: UNIQUE(domain, agent_name) admits no row twice.  A    *)
(* connection works on its own copy and publishes it with commit().        *)

execute_delete_keeps_rows(working) == working

\* cursor.execute('DELETE FROM table')
execute_delete(working) == {}

RECURSIVE execute_inserts(_, _, _)
\* the loop  for domain, agent_name in records  from records[i] on;
\* an INSERT of a row the table holds is an sqlite3.IntegrityError
execute_inserts(working, recs, i) ==
    IF i > Len(recs) THEN [error |-> NoError, rows |-> working]
    ELSE IF recs[i] \in working
    THEN [error |-> Raise("IntegrityError", 0), rows |-> working]
    ELSE execute_inserts(working \cup {recs[i]}, recs, i + 1)

connection_dropped_autocommit(committed, working) == working

\* the table once an exception has left the call before conn.commit():
\* the connection's open transaction is rolled back
connection_dropped(committed, working) == committed

\* load_baseline_windows / load_baseline_linux on one table:
\* the exception or none, the committed rows afterwards, the rows DELETE removed
load_baseline(committed, file) ==
    LET validated == validate_baseline_csv(file) IN
    IF validated.error # NoError
    THEN [error |-> validated.error, committed |-> committed, deleted |-> 0]
    ELSE LET cleared == execute_delete(committed)
             inserted == execute_inserts(cleared, validated.records, 1)
         IN IF inserted.error # NoError
            THEN [error |-> inserted.error,
                  committed |-> connection_dropped(committed, inserted.rows),
                  deleted |-> Cardinality(committed \ cleared)]
            ELSE [error |-> NoError,
                  committed |-> inserted.rows,
                  deleted |-> Cardinality(committed \ cleared)]

\* SELECT DISTINCT domain, agent_name, grouped by domain
get_baseline_agents(rows) ==
    [d \in {r[1] : r \in rows} |-> {r[2] : r \in {x \in rows : x[1] = d}}]

-----------------------------------------------------------------------------
(* Inputs *)

RECURSIVE SeqsUpTo(_, _)
\* the sequences over S of length at most n
SeqsUpTo(S, n) ==
    IF n = 0 THEN {<<>>}
    ELSE LET shorter == SeqsUpTo(S, n - 1) IN
         shorter \cup {Append(q, x) : q \in shorter, x \in S}

RECURSIVE double_quotes(_)
double_quotes(f) ==
    IF f = <<>> THEN <<>>
    ELSE IF Head(f) = Quote THEN <<Quote, Quote>> \o double_quotes(Tail(f))
    ELSE <<Head(f)>> \o double_quotes(Tail(f))

\* csv.writer(f).writerow(fields), without the line terminator
writerow(fields) ==
    join([i \in 1..Len(fields) |->
            IF \E j \in 1..Len(fields[i]) : fields[i][j] \in {Comma, Quote, "\n", "\r"}
            THEN <<Quote>> \o double_quotes(fields[i]) \o <<Quote>>
            ELSE fields[i]],
         <<Comma>>)

Domains == {"D1", "D2"}
Agents == {"A1", "A2"}

DateNow == <<"2026-02-01 06:00:00">>
DateBoundary == <<"2026-01-31 06:00:00">>
DateStale == <<"2026-01-31 05:00:00">>
DateFeedBoundary == <<"Jan 31", Comma, " ", "2026 @ 06:00:00.000">>
DateInvalid == <<"invalid-date">>

\* the clock when a run starts: the instant the feeds call "now"
StartClock == parse_available_date(DateNow).value

HeaderLine == writerow([i \in 1..Len(AVAILABILITY_COLUMNS) |-> <<AVAILABILITY_COLUMNS[i]>>])

\* data lines of the availability files of the end-to-end runs
FeedLines ==
    { writerow(<< <<"D1">>, <<"A1">>, DateNow >>),
      writerow(<< <<"A1">>, <<"D1">>, DateNow >>),
      writerow(<< <<"D1">>, <<"A2">>, DateFeedBoundary >>) }

\* data lines of the availability files get_availability_records is run on alone
AvailLines ==
    FeedLines \cup
    { writerow(<< <<"D1">>, <<"A1">>, DateInvalid >>),
      writerow(<< <<"D1">>, <<"A1">>, DateBoundary >>),
      writerow(<< <<"D1">>, <<"A1">>, DateStale >>),
      <<"D1", Comma, "A1", Comma>> \o DateFeedBoundary,
      <<"D1", Comma, "A1">>,
      <<>> }

FilesOver(lines) ==
    {[exists |-> TRUE, bom |-> FALSE, lines |-> <<HeaderLine>> \o body] :
        body \in SeqsUpTo(lines, MaxRows)}

OddFiles ==
    { NoFile,
      [exists |-> TRUE, bom |-> FALSE, lines |-> <<>>],
      [exists |-> TRUE, bom |-> TRUE, lines |-> <<>>],
      [exists |-> TRUE, bom |-> FALSE, lines |-> << <<"Wrong", Comma, "Headers">> >>] }

FeedFiles == FilesOver(FeedLines)
AvailFiles == FilesOver(AvailLines) \cup OddFiles

BaselineHeader == [i \in 1..Len(BASELINE_COLUMNS) |-> <<BASELINE_COLUMNS[i]>>]

\* data rows of the baseline files
BaselineRows ==
    { << <<"D1">>, <<"A1">> >>,
      << <<"D1">>, <<"A2">> >>,
      << <<" ", "D2">>, <<"A1", " ">> >> }

BaselineFiles ==
    {[exists |-> TRUE, bom |-> FALSE, rows |-> <<BaselineHeader>> \o body] :
        body \in SeqsUpTo(BaselineRows, MaxBaselineRows)}
    \cup
    { [exists |-> FALSE, bom |-> FALSE, rows |-> <<>>],
      [exists |-> TRUE, bom |-> FALSE, rows |-> <<>>],
      [exists |-> TRUE, bom |-> FALSE,
       rows |-> << << <<"Wrong">>, <<"Headers">> >>, << <<"D1">>, <<"A1">> >> >>],
      [exists |-> TRUE, bom |-> FALSE,
       rows |-> << BaselineHeader, << <<"D1">>, <<"A1">> >>, << <<"D1">>, <<>> >> >>] }

\* arguments of calculate_availability when it is run alone
AllBaselines ==
    UNION {[ds -> SUBSET Agents] : ds \in SUBSET Domains}

IndexStamps == {parse_available_date(DateBoundary).value, parse_available_date(DateNow).value}

AllIndexes ==
    UNION {[ks -> IndexStamps] : ks \in SUBSET (Agents \X Domains)}

-----------------------------------------------------------------------------
(* State *)

NoBaselineFile == [exists |-> FALSE, bom |-> FALSE, rows |-> <<>>]
NoLoad == [table |-> "", csv |-> NoBaselineFile, error |-> NoError, deleted |-> 0]
NoResults == new_domain_results({})

\* the locals of a run, before it starts and after it ends
LocalsCleared ==
    /\ table_name = ""
    /\ baseline_agents = EmptyMap
    /\ csv_path = NoFile
    /\ records = <<>>
    /\ row_i = 0
    /\ availability_map = EmptyMap
    /\ avail_ret = NotReturned
    /\ error = NoError
    /\ now = 0
    /\ results = EmptyMap
    /\ domains_left = {}
    /\ domain = ""
    /\ agents_left = {}
    /\ agent_name = ""
    /\ domain_results = NoResults

NoValidation ==
    [function |-> "", csv_path |-> NoFile, error |-> NoError, records |-> <<>>,
     got |-> <<>>]

\* the locals of check_availability before it is called, and no report emitted
\* parse_available_date has not been called alone
NoParse == [date_str |-> <<>>, called |-> FALSE, error |-> NoError, value |-> 0]

\* get_input_path returned None
None == <<>>

\* option 3 of the menu has not been chosen
MainCleared ==
    /\ cwd = EmptyMap
    /\ supplied = {}
    /\ main_windows_csv = None
    /\ main_linux_csv = None
    /\ created = {}
    /\ unlinked = {}

CheckCleared ==
    /\ windows_csv = NoFile
    /\ linux_csv = NoFile
    /\ windows_baseline = EmptyMap
    /\ linux_baseline = EmptyMap
    /\ windows_availability = NotReturned
    /\ linux_availability = NotReturned
    /\ windows_results = EmptyMap
    /\ linux_results = EmptyMap
    /\ outputs = EmptyMap

\* after create_database(): both tables exist and are empty
Init ==
    /\ db = [t \in Tables |-> {}]
    /\ load_result = NoLoad
    /\ pc = "menu"
    /\ clock = StartClock
    /\ LocalsCleared
    /\ validation = NoValidation
    /\ CheckCleared
    /\ date_ret = NoParse
    /\ MainCleared

index_vars == <<csv_path, records, row_i, availability_map, avail_ret>>
calc_vars == <<now, results, domains_left, domain, agents_left, agent_name,
               domain_results>>

-----------------------------------------------------------------------------
(* Actions *)

\* the load with its DELETE and INSERTs run on both tables
load_baseline_on_every_table(table, file) ==
    /\ pc = "menu"
    /\ LET done == load_baseline(db[table], file) IN
        /\ db' = [t \in Tables |-> done.committed]
        /\ load_result' = [table |-> table, csv |-> file, error |-> done.error,
                           deleted |-> done.deleted]
    /\ UNCHANGED <<pc, table_name, baseline_agents, error, clock>>
    /\ UNCHANGED index_vars
    /\ UNCHANGED calc_vars
    /\ UNCHANGED validation_vars
    /\ UNCHANGED date_ret
    /\ UNCHANGED main_vars
    /\ UNCHANGED check_vars

load_baseline_on(table, file) ==
    /\ pc = "menu"
    /\ LET done == load_baseline(db[table], file) IN
        /\ db' = [db EXCEPT ![table] = done.committed]
        /\ load_result' = [table |-> table, csv |-> file, error |-> done.error,
                           deleted |-> done.deleted]
    /\ UNCHANGED <<pc, table_name, baseline_agents, error, clock>>
    /\ UNCHANGED index_vars
    /\ UNCHANGED calc_vars
    /\ UNCHANGED validation_vars
    /\ UNCHANGED date_ret
    /\ UNCHANGED main_vars
    /\ UNCHANGED check_vars

load_baseline_windows(csv) == load_baseline_on(WINDOWS_TABLE, csv)

load_baseline_linux(csv) == load_baseline_on(LINUX_TABLE, csv)

\* baseline_data = aa.get_baseline_agents(table)
get_baseline_agents_call(table) ==
    /\ pc = "menu"
    /\ table_name' = table
    /\ baseline_agents' = get_baseline_agents(db[table])
    /\ load_result' = NoLoad
    /\ pc' = "baseline"
    /\ UNCHANGED <<db, error, clock>>
    /\ UNCHANGED index_vars
    /\ UNCHANGED calc_vars
    /\ UNCHANGED validation_vars
    /\ UNCHANGED date_ret
    /\ UNCHANGED main_vars
    /\ UNCHANGED check_vars

\* get_availability_records up to its loop
get_availability_records_call(file) ==
    /\ pc = "baseline"
    /\ csv_path' = file
    /\ LET validated == validate_availability_csv(file) IN
        IF validated.error # NoError
        THEN /\ error' = validated.error
             /\ pc' = "raised"
             /\ UNCHANGED records
        ELSE /\ records' = validated.records
             /\ pc' = "indexing"
             /\ UNCHANGED error
    /\ row_i' = 0
    /\ availability_map' = EmptyMap
    /\ UNCHANGED <<db, load_result, table_name, baseline_agents, avail_ret, clock>>
    /\ UNCHANGED calc_vars
    /\ UNCHANGED validation_vars
    /\ UNCHANGED date_ret
    /\ UNCHANGED main_vars
    /\ UNCHANGED check_vars

\* one iteration of the loop of get_availability_records
get_availability_records_loop ==
    /\ pc = "indexing"
    /\ row_i < Len(records)
    /\ LET step == index_row(availability_map, records[row_i + 1]) IN
        IF step.error # NoError
        THEN /\ error' = step.error
             /\ pc' = "raised"
             /\ availability_map' = EmptyMap
             /\ UNCHANGED row_i
        ELSE /\ availability_map' = step.map
             /\ row_i' = row_i + 1
             /\ UNCHANGED <<error, pc>>
    /\ UNCHANGED <<db, load_result, table_name, baseline_agents, csv_path, records,
                   avail_ret, clock>>
    /\ UNCHANGED calc_vars
    /\ UNCHANGED validation_vars
    /\ UNCHANGED date_ret
    /\ UNCHANGED main_vars
    /\ UNCHANGED check_vars

\* return availability_map
get_availability_records_return ==
    /\ pc = "indexing"
    /\ row_i = Len(records)
    /\ avail_ret' = [returned |-> TRUE, map |-> availability_map]
    /\ pc' = "index"
    /\ UNCHANGED <<db, load_result, table_name, baseline_agents, csv_path, records,
                   row_i, availability_map, error, clock>>
    /\ UNCHANGED calc_vars
    /\ UNCHANGED validation_vars
    /\ UNCHANGED date_ret
    /\ UNCHANGED main_vars
    /\ UNCHANGED check_vars

\* calculate_availability(baseline_agents, availability_map): results = {}
calculate_availability_call ==
    /\ pc = "index"
    /\ results' = EmptyMap
    /\ domains_left' = DOMAIN baseline_agents
    /\ pc' = "domains"
    /\ UNCHANGED <<db, load_result, table_name, baseline_agents, error, clock, now,
                   domain, agents_left, agent_name, domain_results>>
    /\ UNCHANGED index_vars
    /\ UNCHANGED validation_vars
    /\ UNCHANGED date_ret
    /\ UNCHANGED main_vars
    /\ UNCHANGED check_vars

\* for domain, agents in baseline_agents.items(): the next domain
for_domain ==
    /\ pc = "domains"
    /\ \E d \in domains_left :
        /\ domain' = d
        /\ domains_left' = domains_left \ {d}
        /\ agents_left' = baseline_agents[d]
        /\ domain_results' = new_domain_results(baseline_agents[d])
    /\ pc' = "agents"
    /\ UNCHANGED <<db, load_result, table_name, baseline_agents, error, clock, now,
                   results, agent_name>>
    /\ UNCHANGED index_vars
    /\ UNCHANGED validation_vars
    /\ UNCHANGED date_ret
    /\ UNCHANGED main_vars
    /\ UNCHANGED check_vars

\* for agent_name in agents: the next agent, in the set's order
for_agent ==
    /\ pc = "agents"
    /\ \E a \in agents_left :
        /\ agent_name' = a
        /\ agents_left' = agents_left \ {a}
        /\ domain_results' =
               classify_agent(domain_results, a, domain, avail_ret.map, clock)
        /\ now' = IF <<a, domain>> \in DOMAIN avail_ret.map THEN clock ELSE now
    /\ UNCHANGED <<db, load_result, pc, table_name, baseline_agents, error, clock,
                   results, domains_left, domain>>
    /\ UNCHANGED index_vars
    /\ UNCHANGED validation_vars
    /\ UNCHANGED date_ret
    /\ UNCHANGED main_vars
    /\ UNCHANGED check_vars

\* results[domain] = domain_results
store_domain_results ==
    /\ pc = "agents"
    /\ agents_left = {}
    /\ results' = Assign(results, domain, domain_results)
    /\ pc' = "domains"
    /\ UNCHANGED <<db, load_result, table_name, baseline_agents, error, clock, now,
                   domains_left, domain, agents_left, agent_name, domain_results>>
    /\ UNCHANGED index_vars
    /\ UNCHANGED validation_vars
    /\ UNCHANGED date_ret
    /\ UNCHANGED main_vars
    /\ UNCHANGED check_vars

\* return results
calculate_availability_return ==
    /\ pc = "domains"
    /\ domains_left = {}
    /\ pc' = "done"
    /\ UNCHANGED <<db, load_result, table_name, baseline_agents, error, clock>>
    /\ UNCHANGED index_vars
    /\ UNCHANGED calc_vars
    /\ UNCHANGED validation_vars
    /\ UNCHANGED date_ret
    /\ UNCHANGED main_vars
    /\ UNCHANGED check_vars

\* the wall clock advances while calculate_availability runs
Tick ==
    /\ pc \in {"domains", "agents"}
    /\ clock < StartClock + MaxTicks
    /\ clock' = clock + 1
    /\ UNCHANGED <<db, load_result, pc, table_name, baseline_agents, error>>
    /\ UNCHANGED index_vars
    /\ UNCHANGED calc_vars
    /\ UNCHANGED validation_vars
    /\ UNCHANGED date_ret
    /\ UNCHANGED main_vars
    /\ UNCHANGED check_vars

\* the run is over (its result used, or its exception reported)
run_ends ==
    /\ pc \in {"done", "raised"}
    /\ pc' = "menu"
    /\ clock' = StartClock
    /\ table_name' = ""
    /\ baseline_agents' = EmptyMap
    /\ csv_path' = NoFile
    /\ records' = <<>>
    /\ row_i' = 0
    /\ availability_map' = EmptyMap
    /\ avail_ret' = NotReturned
    /\ error' = NoError
    /\ now' = 0
    /\ results' = EmptyMap
    /\ domains_left' = {}
    /\ domain' = ""
    /\ agents_left' = {}
    /\ agent_name' = ""
    /\ domain_results' = NoResults
    /\ UNCHANGED <<db, load_result>>
    /\ UNCHANGED validation_vars
    /\ UNCHANGED date_ret
    /\ UNCHANGED main_vars
    /\ UNCHANGED check_vars

-----------------------------------------------------------------------------
(* check_availability.  Its calls are taken whole: the functions it calls  *)
(* are the operators below, built from the same loop bodies as the steps   *)
(* above.                                                                   *)

RECURSIVE index_rows(_, _)
\* the loop of get_availability_records over rows, continuing map
index_rows(rows, map) ==
    IF rows = <<>> THEN [error |-> NoError, map |-> map]
    ELSE LET step == index_row(map, Head(rows)) IN
         IF step.error # NoError THEN [error |-> step.error, map |-> EmptyMap]
         ELSE index_rows(Tail(rows), step.map)

\* a failed feed read as an empty one
get_availability_records_lenient(file) ==
    LET validated == validate_availability_csv(file) IN
    IF validated.error # NoError THEN [error |-> NoError, map |-> EmptyMap]
    ELSE [index_rows(validated.records, EmptyMap) EXCEPT !.error = NoError]

\* get_availability_records(csv_path): the exception, or the map returned
get_availability_records(file) ==
    LET validated == validate_availability_csv(file) IN
    IF validated.error # NoError THEN [error |-> validated.error, map |-> EmptyMap]
    ELSE index_rows(validated.records, EmptyMap)

RECURSIVE classify_agents(_, _, _, _, _)
\* the loop  for agent_name in agents  over the agents left
classify_agents(dr, agents, dom, map, clock_read) ==
    IF agents = {} THEN dr
    ELSE LET a == CHOOSE x \in agents : TRUE IN
         classify_agents(classify_agent(dr, a, dom, map, clock_read),
                         agents \ {a}, dom, map, clock_read)

\* calculate_availability(baseline_agents, availability_map), the clock
\* reading clock_read throughout the call
calculate_availability(baseline, map, clock_read) ==
    [d \in DOMAIN baseline |->
        classify_agents(new_domain_results(baseline[d]), baseline[d], d, map,
                        clock_read)]

\* available_count / total * 100 whatever the total
percentage_unguarded(result) ==
    [num |-> Cardinality(result.available) * 100, den |-> result.total]

\* (available_count / total * 100) if total > 0 else 0, as the exact
\* fraction num / den
percentage(result) ==
    IF result.total > 0
    THEN [num |-> Cardinality(result.available) * 100, den |-> result.total]
    ELSE [num |-> 0, den |-> 1]

\* what the console and the document say of one OS class: per domain, the
\* hosts not available and the percentage
domain_summaries(os_results) ==
    [d \in DOMAIN os_results |->
        [not_available |-> os_results[d].not_available,
         percentage |-> percentage(os_results[d])]]

\* the rows of one sheet of the workbook: domain, agent, whether available
sheet_rows(os_results) ==
    UNION {{<<d, a, TRUE>> : a \in os_results[d].available} \cup
           {<<d, a, FALSE>> : a \in os_results[d].not_available} :
           d \in DOMAIN os_results}

\* windows_baseline = ..., linux_baseline = ..., and the return False when
\* both are empty
check_availability_call(windows_file, linux_file) ==
    /\ pc = "menu"
    /\ windows_csv' = windows_file
    /\ linux_csv' = linux_file
    /\ windows_baseline' = get_baseline_agents(db[WINDOWS_TABLE])
    /\ linux_baseline' = get_baseline_agents(db[LINUX_TABLE])
    /\ pc' = IF db[WINDOWS_TABLE] = {} /\ db[LINUX_TABLE] = {}
             THEN "returned_false" ELSE "check_baselines"
    /\ UNCHANGED <<db, load_result, table_name, baseline_agents, error, clock,
                   windows_availability, linux_availability, windows_results,
                   linux_results, outputs>>
    /\ UNCHANGED index_vars
    /\ UNCHANGED calc_vars
    /\ UNCHANGED validation_vars
    /\ UNCHANGED date_ret
    /\ UNCHANGED main_vars

\* windows_availability = get_availability_records(windows_csv)
check_windows_feed ==
    /\ pc = "check_baselines"
    /\ LET got == get_availability_records(windows_csv) IN
        IF got.error # NoError
        THEN /\ error' = got.error
             /\ pc' = "raised"
             /\ UNCHANGED windows_availability
        ELSE /\ windows_availability' = [returned |-> TRUE, map |-> got.map]
             /\ pc' = "check_windows_feed"
             /\ UNCHANGED error
    /\ UNCHANGED <<db, load_result, table_name, baseline_agents, clock,
                   windows_csv, linux_csv, windows_baseline, linux_baseline,
                   linux_availability, windows_results, linux_results, outputs>>
    /\ UNCHANGED index_vars
    /\ UNCHANGED calc_vars
    /\ UNCHANGED validation_vars
    /\ UNCHANGED date_ret
    /\ UNCHANGED main_vars

\* linux_availability = get_availability_records(linux_csv)
check_linux_feed ==
    /\ pc = "check_windows_feed"
    /\ LET got == get_availability_records(linux_csv) IN
        IF got.error # NoError
        THEN /\ error' = got.error
             /\ pc' = "raised"
             /\ UNCHANGED linux_availability
        ELSE /\ linux_availability' = [returned |-> TRUE, map |-> got.map]
             /\ pc' = "check_feeds"
             /\ UNCHANGED error
    /\ UNCHANGED <<db, load_result, table_name, baseline_agents, clock,
                   windows_csv, linux_csv, windows_baseline, linux_baseline,
                   windows_availability, windows_results, linux_results, outputs>>
    /\ UNCHANGED index_vars
    /\ UNCHANGED calc_vars
    /\ UNCHANGED validation_vars
    /\ UNCHANGED date_ret
    /\ UNCHANGED main_vars

\* windows_results = calculate_availability(windows_baseline, windows_availability)
check_windows_results ==
    /\ pc = "check_feeds"
    /\ windows_results' =
           calculate_availability(windows_baseline, windows_availability.map, clock)
    /\ pc' = "check_windows_results"
    /\ UNCHANGED <<db, load_result, table_name, baseline_agents, error, clock,
                   windows_csv, linux_csv, windows_baseline, linux_baseline,
                   windows_availability, linux_availability, linux_results,
                   outputs>>
    /\ UNCHANGED index_vars
    /\ UNCHANGED calc_vars
    /\ UNCHANGED validation_vars
    /\ UNCHANGED date_ret
    /\ UNCHANGED main_vars

\* linux_results = calculate_availability(linux_baseline, linux_availability)
check_linux_results ==
    /\ pc = "check_windows_results"
    /\ linux_results' =
           calculate_availability(linux_baseline, linux_availability.map, clock)
    /\ pc' = "check_results"
    /\ UNCHANGED <<db, load_result, table_name, baseline_agents, error, clock,
                   windows_csv, linux_csv, windows_baseline, linux_baseline,
                   windows_availability, linux_availability, windows_results,
                   outputs>>
    /\ UNCHANGED index_vars
    /\ UNCHANGED calc_vars
    /\ UNCHANGED validation_vars
    /\ UNCHANGED date_ret
    /\ UNCHANGED main_vars

\* one of the three reports is emitted, from position at to position to
emit_report(at, kind, content, to) ==
    /\ pc = at
    /\ outputs' = Assign(outputs, kind, content)
    /\ pc' = to
    /\ UNCHANGED <<db, load_result, table_name, baseline_agents, error, clock,
                   windows_csv, linux_csv, windows_baseline, linux_baseline,
                   windows_availability, linux_availability, windows_results,
                   linux_results>>
    /\ UNCHANGED index_vars
    /\ UNCHANGED calc_vars
    /\ UNCHANGED validation_vars
    /\ UNCHANGED date_ret
    /\ UNCHANGED main_vars

\* print_console_report(windows_results, linux_results)
print_console_report ==
    emit_report("check_results", "console",
                [Windows |-> domain_summaries(windows_results),
                 Linux |-> domain_summaries(linux_results)],
                "console")

\* generate_xlsx_report(windows_results, linux_results, xlsx_path)
generate_xlsx_report ==
    emit_report("console", "xlsx",
                [Windows |-> sheet_rows(windows_results),
                 Linux |-> sheet_rows(linux_results)],
                "xlsx")

\* generate_docx_report(windows_results, linux_results, docx_path)
generate_docx_report ==
    emit_report("xlsx", "docx",
                [Windows |-> domain_summaries(windows_results),
                 Linux |-> domain_summaries(linux_results)],
                "returned_true")

-----------------------------------------------------------------------------
(* The validators called alone *)

\* records = validate_baseline_csv(csv_path)
validate_baseline_csv_call(file) ==
    /\ validation = NoValidation
    /\ LET outcome == validate_baseline_csv(file) IN
        validation' = [function |-> "validate_baseline_csv", csv_path |-> file,
                       error |-> outcome.error, records |-> outcome.records,
                       got |-> <<>>]
    /\ UNCHANGED <<db, load_result, pc, table_name, baseline_agents, error, clock>>
    /\ UNCHANGED index_vars
    /\ UNCHANGED calc_vars
    /\ UNCHANGED check_vars
    /\ UNCHANGED date_ret
    /\ UNCHANGED main_vars

\* records = validate_availability_csv(csv_path); got is what a
\* HeaderMismatch message shows after "Got:"
validate_availability_csv_call(file) ==
    /\ validation = NoValidation
    /\ LET outcome == validate_availability_csv(file) IN
        validation' = [function |-> "validate_availability_csv", csv_path |-> file,
                       error |-> outcome.error, records |-> outcome.records,
                       got |-> IF outcome.error.kind = "HeaderMismatch"
                               THEN outcome.got ELSE <<>>]
    /\ UNCHANGED <<db, load_result, pc, table_name, baseline_agents, error, clock>>
    /\ UNCHANGED index_vars
    /\ UNCHANGED calc_vars
    /\ UNCHANGED check_vars
    /\ UNCHANGED date_ret
    /\ UNCHANGED main_vars

-----------------------------------------------------------------------------
(* Specifications *)

\* the program: baselines are loaded, then availability is computed
Next ==
    \/ \E csv \in BaselineFiles : load_baseline_windows(csv)
    \/ \E csv \in BaselineFiles : load_baseline_linux(csv)
    \/ \E table \in Tables : get_baseline_agents_call(table)
    \/ \E file \in FeedFiles : get_availability_records_call(file)
    \/ get_availability_records_loop
    \/ get_availability_records_return
    \/ calculate_availability_call
    \/ for_domain
    \/ for_agent
    \/ store_domain_results
    \/ calculate_availability_return
    \/ Tick
    \/ run_ends

Spec == Init /\ [][Next]_vars

\* get_availability_records alone, on every availability file of the model
InitIndex ==
    /\ db = [t \in Tables |-> {}]
    /\ load_result = NoLoad
    /\ pc = "baseline"
    /\ clock = StartClock
    /\ LocalsCleared
    /\ validation = NoValidation
    /\ CheckCleared
    /\ date_ret = NoParse
    /\ MainCleared

NextIndex ==
    \/ \E file \in AvailFiles : get_availability_records_call(file)
    \/ get_availability_records_loop
    \/ get_availability_records_return

SpecIndex == InitIndex /\ [][NextIndex]_vars

\* calculate_availability alone, on every baseline mapping and index of the model
InitClassify ==
    /\ db = [t \in Tables |-> {}]
    /\ load_result = NoLoad
    /\ pc = "index"
    /\ clock = StartClock
    /\ table_name = ""
    /\ baseline_agents \in AllBaselines
    /\ csv_path = NoFile
    /\ records = <<>>
    /\ row_i = 0
    /\ availability_map = EmptyMap
    /\ \E map \in AllIndexes : avail_ret = [returned |-> TRUE, map |-> map]
    /\ error = NoError
    /\ now = 0
    /\ results = EmptyMap
    /\ domains_left = {}
    /\ domain = ""
    /\ agents_left = {}
    /\ agent_name = ""
    /\ domain_results = NoResults
    /\ validation = NoValidation
    /\ CheckCleared
    /\ date_ret = NoParse
    /\ MainCleared

NextClassify ==
    \/ calculate_availability_call
    \/ for_domain
    \/ for_agent
    \/ store_domain_results
    \/ calculate_availability_return
    \/ Tick

SpecClassify == InitClassify /\ [][NextClassify]_vars

\* the rows a baseline table holds when check_availability is called
CheckTables ==
    { {},
      {<<"D1", "A1">>},
      {<<"D1", "A1">>, <<"D1", "A2">>, <<"D2", "A1">>} }

\* data lines of the availability files given to check_availability
CheckLines ==
    { writerow(<< <<"D1">>, <<"A1">>, DateNow >>),
      writerow(<< <<"D1">>, <<"A2">>, DateStale >>),
      writerow(<< <<"D1">>, <<"A1">>, DateInvalid >>) }

CheckFiles == FilesOver(CheckLines) \cup OddFiles

\* check_availability alone, on every pair of availability files of the
\* model and with both baseline tables loaded, one of them or none
InitCheck ==
    /\ db \in [Tables -> CheckTables]
    /\ load_result = NoLoad
    /\ pc = "menu"
    /\ clock = StartClock
    /\ LocalsCleared
    /\ validation = NoValidation
    /\ CheckCleared
    /\ date_ret = NoParse
    /\ MainCleared

NextCheck ==
    \/ \E windows_file \in CheckFiles, linux_file \in CheckFiles :
          check_availability_call(windows_file, linux_file)
    \/ check_windows_feed
    \/ check_linux_feed
    \/ check_windows_results
    \/ check_linux_results
    \/ print_console_report
    \/ generate_xlsx_report
    \/ generate_docx_report

SpecCheck == InitCheck /\ [][NextCheck]_vars

\* header rows of the baseline files validate_baseline_csv is run on alone
CsvHeaders ==
    { BaselineHeader,
      << <<" ", "Domain">>, <<"Agent Name", " ">> >>,
      << <<BOM, "Domain">>, <<"Agent Name">> >>,
      << <<BOM, " ", "Domain">>, <<"Agent Name">> >>,
      << <<"domain">>, <<"Agent Name">> >>,
      << <<"Agent Name">>, <<"Domain">> >>,
      << <<"Domain">>, <<"Agent Name">>, <<"Extra">> >>,
      << <<"Domain">> >>,
      << <<"Wrong">>, <<"Headers">> >>,
      <<>> }

\* data rows of those files: complete ones, rows with an empty or blank
\* field, a row shorter than the header, a blank line
CsvRows ==
    { << <<"D1">>, <<"A1">> >>,
      << <<" ", "D2">>, <<"A1", " ">> >>,
      << <<"D1">>, <<" ">> >>,
      << <<>>, <<"A1">> >>,
      << <<"D1">> >>,
      <<>> }

CsvFiles ==
    {[exists |-> TRUE, bom |-> bom, rows |-> <<header>> \o body] :
        bom \in BOOLEAN, header \in CsvHeaders,
        body \in SeqsUpTo(CsvRows, MaxBaselineRows)}
    \cup
    { [exists |-> FALSE, bom |-> FALSE, rows |-> <<>>],
      [exists |-> TRUE, bom |-> FALSE, rows |-> <<>>],
      [exists |-> TRUE, bom |-> TRUE, rows |-> <<>>] }

\* validate_baseline_csv alone, on every baseline file of the model
InitBaselineCsv ==
    /\ db = [t \in Tables |-> {}]
    /\ load_result = NoLoad
    /\ pc = "menu"
    /\ clock = StartClock
    /\ LocalsCleared
    /\ validation = NoValidation
    /\ CheckCleared
    /\ date_ret = NoParse
    /\ MainCleared

NextBaselineCsv == \E file \in CsvFiles : validate_baseline_csv_call(file)

SpecBaselineCsv == InitBaselineCsv /\ [][NextBaselineCsv]_vars

\* a field between double quotes
Quoted(field) == <<Quote>> \o field \o <<Quote>>

\* header lines of the availability files validate_availability_csv is run
\* on alone
HeaderLines ==
    { HeaderLine,
      <<"DOMAIN", Comma, "agent name", Comma, "last available date">>,
      Quoted(<<"Domain">>) \o <<Comma>> \o Quoted(<<"Agent Name">>) \o <<Comma>>
          \o Quoted(<<"Last Available Date">>),
      <<Apostrophe, "Domain", Apostrophe, " ", Comma, " ", "Agent Name", " ",
        Comma, "Last Available Date">>,
      <<BOM, "Domain", Comma, "Agent Name", Comma, "Last Available Date">>,
      <<"Wrong", Comma, "Headers">>,
      <<"Agent Name", Comma, "Domain", Comma, "Last Available Date">>,
      <<"Domain", Comma, "Agent Name">>,
      <<"Domain", Comma, "Agent Name", Comma, "Last Available Date", Comma, "Headers">>,
      Quoted(<<"Domain", Comma, "Agent Name">>) \o <<Comma, "Last Available Date">>,
      Quoted(<<"Domain", Comma, "Agent Name", Comma, "Last Available Date">>) }

\* data lines of those files
TokenLines ==
    { <<"D1", Comma, "A1", Comma>> \o DateNow,
      Quoted(<<"D1">>) \o <<Comma>> \o Quoted(<<"A1">>) \o <<Comma>>
          \o Quoted(DateFeedBoundary),
      Quoted(<<"D1">>) \o <<Comma>> \o Quoted(<<"A1">>) \o <<Comma>>
          \o Quoted(<<"x", Comma, "y">>),
      <<Quote, "D1", Comma, "A1", Comma, "x">>,
      <<Quote, "D", Quote, Quote, "1", Quote, Comma, "A1", Comma, "x">>,
      <<"D1", Comma, "A1">>,
      <<"D1", Comma, "A1", Comma, "Jan 31", Comma, "2026 @ 06:00:00.000">>,
      <<"D1", Comma, "A1", Comma, "Jan 31", " ", Comma, " ", " ",
        "2026 @ 06:00:00.000">>,
      <<" ", "D1", " ", Comma, " ", Apostrophe, "A1", Apostrophe, " ", Comma, "x">>,
      <<"D1", Comma, Apostrophe, " ", Apostrophe, Comma, "x">>,
      <<"D1", Comma, Comma, "x">>,
      <<>>,
      <<" ">> }

TokenFiles ==
    {[exists |-> TRUE, bom |-> FALSE, lines |-> <<header>> \o body] :
        header \in HeaderLines, body \in SeqsUpTo(TokenLines, MaxRows)}
    \cup OddFiles

\* validate_availability_csv alone, on every availability file above
InitAvailabilityCsv ==
    /\ db = [t \in Tables |-> {}]
    /\ load_result = NoLoad
    /\ pc = "menu"
    /\ clock = StartClock
    /\ LocalsCleared
    /\ validation = NoValidation
    /\ CheckCleared
    /\ date_ret = NoParse
    /\ MainCleared

NextAvailabilityCsv ==
    /\ validation = NoValidation
    /\ \E file \in TokenFiles : validate_availability_csv_call(file)

SpecAvailabilityCsv == InitAvailabilityCsv /\ [][NextAvailabilityCsv]_vars

\* parse_available_date called on a date string, alone
parse_available_date_call(date_str) ==
    /\ date_ret = NoParse
    /\ LET ret == parse_available_date(date_str) IN
       date_ret' = [date_str |-> date_str, called |-> TRUE,
                    error |-> ret.error, value |-> ret.value]
    /\ UNCHANGED <<db, load_result, pc, table_name, baseline_agents, error, clock>>
    /\ UNCHANGED index_vars
    /\ UNCHANGED calc_vars
    /\ UNCHANGED validation_vars
    /\ UNCHANGED check_vars
    /\ UNCHANGED main_vars

\* the date texts parse_available_date is run on: those strptime knows under
\* some format, and texts no format matches
DateTexts ==
    {e[2] : e \in StrptimeTable}
    \cup {"invalid-date", "2026-01-31", "2026-01-31 06:00:00 x",
          "Jan 31,2026 @ 06:00:00", "2026-01-31T06:00:00", "Jun 31, 2026 @ 06:00:00"}

\* whitespace around a date text: at most MaxPad characters on each side
Paddings == SeqsUpTo({" ", "\n"}, MaxPad)

\* the date strings: a text between paddings, and strings of whitespace alone
DateStrings ==
    {pre \o <<text>> \o post : pre \in Paddings, text \in DateTexts, post \in Paddings}
    \cup Paddings

InitDate ==
    /\ db = [t \in Tables |-> {}]
    /\ load_result = NoLoad
    /\ pc = "menu"
    /\ clock = StartClock
    /\ LocalsCleared
    /\ validation = NoValidation
    /\ CheckCleared
    /\ date_ret = NoParse
    /\ MainCleared

NextDate == \E date_str \in DateStrings : parse_available_date_call(date_str)

SpecDate == InitDate /\ [][NextDate]_vars

\* results the reports are run on alone: of every baseline of the model,
\* domains without agents included, against every index
WindowsReportResults ==
    {calculate_availability(baseline, map, StartClock) :
        baseline \in AllBaselines, map \in AllIndexes}

\* and, for the other OS class, of every baseline against an empty feed
LinuxReportResults ==
    {calculate_availability(baseline, EmptyMap, StartClock) :
        baseline \in AllBaselines}

\* the three reports alone, on results as calculate_availability returns them
InitReport ==
    /\ db = [t \in Tables |-> {}]
    /\ load_result = NoLoad
    /\ pc = "check_results"
    /\ clock = StartClock
    /\ LocalsCleared
    /\ validation = NoValidation
    /\ windows_csv = NoFile
    /\ linux_csv = NoFile
    /\ windows_baseline = EmptyMap
    /\ linux_baseline = EmptyMap
    /\ windows_availability = NotReturned
    /\ linux_availability = NotReturned
    /\ windows_results \in WindowsReportResults
    /\ linux_results \in LinuxReportResults
    /\ outputs = EmptyMap
    /\ date_ret = NoParse
    /\ MainCleared

NextReport ==
    \/ print_console_report
    \/ generate_xlsx_report
    \/ generate_docx_report

SpecReport == InitReport /\ [][NextReport]_vars

-----------------------------------------------------------------------------
(* main, option 3.  A path is its file name as a sequence of characters;   *)
(* the working directory maps the names of the files in it to their        *)
(* contents.                                                               *)

\* Path("placeholder_empty.csv")
PLACEHOLDER == <<"placeholder", "_empty.csv">>

\* str.startswith(prefix)
startswith(name, prefix) ==
    Len(name) >= Len(prefix) /\ SubSeq(name, 1, Len(prefix)) = prefix

\* get_input_path: None on an empty answer or on a path that does not exist
\* and is not tried again, the path when the file exists
get_input_path(user_input) ==
    IF user_input = <<>> THEN None
    ELSE IF user_input \in DOMAIN cwd THEN user_input
    ELSE None

\* with open(path, 'w') as f: f.write("Domain,Agent Name,Last Available Date\n")
write_placeholder(dir, path) ==
    Assign(dir, path, [exists |-> TRUE, bom |-> FALSE, lines |-> <<HeaderLine>>])

\* if path.name.startswith("placeholder"): path.unlink()  on the directory
\* dir: the directory afterwards, the name removed, FileNotFoundError or not
unlink_placeholder(dir, path) ==
    IF ~startswith(path, <<"placeholder">>)
    THEN [cwd |-> dir, unlinked |-> {}, raised |-> FALSE]
    ELSE IF path \in DOMAIN dir
    THEN [cwd |-> [n \in DOMAIN dir \ {path} |-> dir[n]],
          unlinked |-> {path}, raised |-> FALSE]
    ELSE [cwd |-> dir, unlinked |-> {}, raised |-> TRUE]

\* the two clean-up statements, the second not reached when the first raises
clean_up(dir, windows_path, linux_path) ==
    LET first == unlink_placeholder(dir, windows_path) IN
    IF first.raised THEN first
    ELSE LET second == unlink_placeholder(first.cwd, linux_path) IN
         [second EXCEPT !.unlinked = first.unlinked \cup @]

\* windows_csv = get_input_path(...); linux_csv = get_input_path(...), and
\* the test for both being None
option3_inputs(windows_input, linux_input) ==
    /\ pc = "menu"
    /\ main_windows_csv' = get_input_path(windows_input)
    /\ main_linux_csv' = get_input_path(linux_input)
    /\ supplied' = {get_input_path(windows_input), get_input_path(linux_input)} \ {None}
    /\ pc' = IF get_input_path(windows_input) = None /\ get_input_path(linux_input) = None
             THEN "cancelled" ELSE "option3_try"
    /\ UNCHANGED <<db, load_result, table_name, baseline_agents, error, clock,
                   cwd, created, unlinked>>
    /\ UNCHANGED index_vars
    /\ UNCHANGED calc_vars
    /\ UNCHANGED validation_vars
    /\ UNCHANGED date_ret
    /\ UNCHANGED check_vars

\* the placeholder written for each OS class whose path is None
option3_placeholders ==
    /\ pc = "option3_try"
    /\ main_windows_csv' = IF main_windows_csv = None THEN PLACEHOLDER ELSE main_windows_csv
    /\ main_linux_csv' = IF main_linux_csv = None THEN PLACEHOLDER ELSE main_linux_csv
    /\ IF main_windows_csv = None \/ main_linux_csv = None
       THEN /\ cwd' = write_placeholder(cwd, PLACEHOLDER)
            /\ created' = created \cup {PLACEHOLDER}
       ELSE UNCHANGED <<cwd, created>>
    /\ pc' = "option3_check"
    /\ UNCHANGED <<db, load_result, table_name, baseline_agents, error, clock,
                   supplied, unlinked>>
    /\ UNCHANGED index_vars
    /\ UNCHANGED calc_vars
    /\ UNCHANGED validation_vars
    /\ UNCHANGED date_ret
    /\ UNCHANGED check_vars

\* check_availability(windows_csv, linux_csv, output_name): it returns, or
\* raises CSVValidationError on a feed, or a report cannot be written and
\* some other exception is raised
option3_check_availability ==
    /\ pc = "option3_check"
    /\ LET windows_got == get_availability_records(cwd[main_windows_csv])
           linux_got == get_availability_records(cwd[main_linux_csv])
           windows_found ==
               calculate_availability(get_baseline_agents(db[WINDOWS_TABLE]),
                                      windows_got.map, clock)
           linux_found ==
               calculate_availability(get_baseline_agents(db[LINUX_TABLE]),
                                      linux_got.map, clock)
           console == [Windows |-> domain_summaries(windows_found),
                       Linux |-> domain_summaries(linux_found)]
           xlsx == [Windows |-> sheet_rows(windows_found),
                    Linux |-> sheet_rows(linux_found)]
       IN IF db[WINDOWS_TABLE] = {} /\ db[LINUX_TABLE] = {}
          THEN /\ pc' = "option3_returned"
               /\ UNCHANGED <<error, outputs>>
          ELSE IF windows_got.error # NoError \/ linux_got.error # NoError
          THEN /\ pc' = "option3_except_agent_availability_error"
               /\ error' = IF windows_got.error # NoError
                            THEN windows_got.error ELSE linux_got.error
               /\ UNCHANGED outputs
          ELSE \/ /\ pc' = "option3_returned"
                  /\ outputs' = [console |-> console, xlsx |-> xlsx, docx |-> console]
                  /\ UNCHANGED error
               \/ /\ pc' = "option3_except_exception"
                  /\ outputs' = [console |-> console]
                  /\ error' = Raise("PermissionError", 0)
    /\ UNCHANGED <<db, load_result, table_name, baseline_agents, clock,
                   windows_csv, linux_csv, windows_baseline, linux_baseline,
                   windows_availability, linux_availability, windows_results,
                   linux_results>>
    /\ UNCHANGED index_vars
    /\ UNCHANGED calc_vars
    /\ UNCHANGED validation_vars
    /\ UNCHANGED date_ret
    /\ UNCHANGED main_vars

\* the clean-up of the try block and of the two except clauses: an
\* exception raised by the try block's clean-up enters except Exception,
\* one raised inside an except clause leaves main
option3_clean_up ==
    /\ pc \in {"option3_returned", "option3_except_agent_availability_error",
                "option3_except_exception"}
    /\ LET done == clean_up(cwd, main_windows_csv, main_linux_csv) IN
        /\ cwd' = done.cwd
        /\ unlinked' = unlinked \cup done.unlinked
        /\ pc' = IF ~done.raised THEN "option3_done"
                 ELSE IF pc = "option3_returned" THEN "option3_except_exception"
                 ELSE "crashed"
        /\ error' = IF done.raised THEN Raise("FileNotFoundError", 0) ELSE error
    /\ UNCHANGED <<db, load_result, table_name, baseline_agents, clock,
                   supplied, main_windows_csv, main_linux_csv, created>>
    /\ UNCHANGED index_vars
    /\ UNCHANGED calc_vars
    /\ UNCHANGED validation_vars
    /\ UNCHANGED date_ret
    /\ UNCHANGED check_vars

\* names of availability files the user may have in the working directory
UserNames == { <<"feed.csv">>, <<"placeholder", "_feed.csv">>, PLACEHOLDER }

\* their contents: a feed with one row, a file with other headers
UserFiles ==
    { [exists |-> TRUE, bom |-> FALSE,
       lines |-> <<HeaderLine, writerow(<< <<"D1">>, <<"A1">>, DateNow >>)>>],
      [exists |-> TRUE, bom |-> FALSE, lines |-> << <<"Wrong", Comma, "Headers">> >>] }

\* option 3 of the menu, on every working directory holding some of these
\* files and with both baseline tables loaded, one of them or none
InitMain ==
    /\ db \in [Tables -> CheckTables]
    /\ load_result = NoLoad
    /\ pc = "menu"
    /\ clock = StartClock
    /\ LocalsCleared
    /\ validation = NoValidation
    /\ CheckCleared
    /\ date_ret = NoParse
    /\ \E names \in SUBSET UserNames : cwd \in [names -> UserFiles]
    /\ supplied = {}
    /\ main_windows_csv = None
    /\ main_linux_csv = None
    /\ created = {}
    /\ unlinked = {}

NextMain ==
    \/ \E windows_input \in UserNames \cup {<<>>}, linux_input \in UserNames \cup {<<>>} :
          option3_inputs(windows_input, linux_input)
    \/ option3_placeholders
    \/ option3_check_availability
    \/ option3_clean_up

SpecMain == InitMain /\ [][NextMain]_vars

-----------------------------------------------------------------------------
(* Claims about calculate_availability, checked under SpecClassify *)

\* C1: every domain result splits the baseline agents of its domain into
\* available and not_available, the two disjoint, their union the baseline
\* set, and total = |available| + |not_available| = the size of that set;
\* the call returns a result for every baseline domain.
C1_ResultPartitionsBaseline ==
    /\ \A d \in DOMAIN results :
        /\ d \in DOMAIN baseline_agents
        /\ results[d].available \cap results[d].not_available = {}
        /\ results[d].available \cup results[d].not_available = baseline_agents[d]
        /\ results[d].total =
               Cardinality(results[d].available) + Cardinality(results[d].not_available)
        /\ results[d].total = Cardinality(baseline_agents[d])
    /\ pc = "done" => DOMAIN results = DOMAIN baseline_agents

\* a returned result in which one domain has agents on both sides
C1_Witness ==
    /\ pc = "done"
    /\ \E d \in DOMAIN results :
        results[d].available # {} /\ results[d].not_available # {}

\* the inner loop of calculate_availability has run its body for agent_name
JustClassified ==
    /\ pc = "agents"
    /\ agent_name \in baseline_agents[domain] \ agents_left

\* C2: the agent just classified is not_available when its (agent, domain)
\* key is not in the index; when the key is there with timestamp ts it is
\* available exactly when ts >= now - 24h, now being the instant
\* is_within_last_24_hours read for it, and not_available otherwise.
C2_FreshnessRuleInclusive ==
    JustClassified =>
        LET key == <<agent_name, domain>> IN
        /\ key \notin DOMAIN avail_ret.map =>
            /\ agent_name \in domain_results.not_available
            /\ agent_name \notin domain_results.available
        /\ key \in DOMAIN avail_ret.map =>
            /\ agent_name \in domain_results.available
                   <=> avail_ret.map[key] >= now - Window
            /\ agent_name \in domain_results.not_available
                   <=> avail_ret.map[key] < now - Window

\* an agent whose timestamp is exactly now - 24h has been classified available
C2_Witness ==
    /\ JustClassified
    /\ <<agent_name, domain>> \in DOMAIN avail_ret.map
    /\ avail_ret.map[<<agent_name, domain>>] = now - Window
    /\ agent_name \in domain_results.available

\* C3: within one call, two baseline agents whose index entries carry the
\* same timestamp receive the same classification.
C3_SameStampSameClass ==
    \A d1 \in DOMAIN results, d2 \in DOMAIN results :
        \A a1 \in baseline_agents[d1], a2 \in baseline_agents[d2] :
            ( /\ <<a1, d1>> \in DOMAIN avail_ret.map
              /\ <<a2, d2>> \in DOMAIN avail_ret.map
              /\ avail_ret.map[<<a1, d1>>] = avail_ret.map[<<a2, d2>>] )
            => (a1 \in results[d1].available <=> a2 \in results[d2].available)

\* C6: last_available_dates of a domain result has an entry for exactly the
\* baseline agents of the domain whose (agent, domain) key is in the index,
\* available or not, and the entry is the indexed timestamp.
C6_LastSeenIsIndexEntry ==
    \A d \in DOMAIN results :
        LET seen == {a \in baseline_agents[d] : <<a, d>> \in DOMAIN avail_ret.map} IN
        /\ DOMAIN results[d].last_available_dates = seen
        /\ \A a \in seen :
            results[d].last_available_dates[a] = avail_ret.map[<<a, d>>]

\* a returned result with a stale agent whose date is recorded beside an
\* agent absent from the feed, which has none
C6_Witness ==
    /\ pc = "done"
    /\ \E d \in DOMAIN results :
        \E a \in results[d].not_available, b \in results[d].not_available :
            /\ a \in DOMAIN results[d].last_available_dates
            /\ b \notin DOMAIN results[d].last_available_dates
            /\ <<b, d>> \notin DOMAIN avail_ret.map

-----------------------------------------------------------------------------
(* Claims about get_availability_records, checked under SpecIndex *)

KeyOf(rec) == <<rec.agent_name, rec.domain>>
StampOf(rec) == parse_available_date(rec.available_date_str).value
BadDate(rec) == parse_available_date(rec.available_date_str).error # NoError

Maximum(S) == CHOOSE m \in S : \A x \in S : x <= m

RECURSIVE IndexOf(_, _)
\* the map the loop of get_availability_records builds from rows, continuing map
IndexOf(rows, map) ==
    IF rows = <<>> THEN map
    ELSE IndexOf(Tail(rows), index_row(map, Head(rows)).map)

\* the rows of recs taken in the order order[1], order[2], ...
Reordered(recs, order) == [i \in 1..Len(recs) |-> recs[order[i]]]

Orders(n) == {f \in [1..n -> 1..n] : \A i, j \in 1..n : f[i] = f[j] => i = j}

\* C5: the returned index has exactly the (agent_name, domain) keys of the
\* rows, maps each key to the greatest timestamp among the rows with that
\* key, and is the same for every order of the rows.
C5_IndexKeepsMaximum ==
    avail_ret.returned =>
        /\ DOMAIN avail_ret.map = {KeyOf(records[i]) : i \in 1..Len(records)}
        /\ \A k \in DOMAIN avail_ret.map :
            avail_ret.map[k] =
                Maximum({StampOf(records[i]) :
                            i \in {j \in 1..Len(records) : KeyOf(records[j]) = k}})
        /\ \A order \in Orders(Len(records)) :
            IndexOf(Reordered(records, order), EmptyMap) = avail_ret.map

\* an index returned for a file in which a later row of a key is older
C5_Witness ==
    /\ avail_ret.returned
    /\ \E i \in 1..Len(records), j \in 1..Len(records) :
        /\ i < j
        /\ KeyOf(records[i]) = KeyOf(records[j])
        /\ StampOf(records[i]) > StampOf(records[j])

\* C10: when a row's date string matches none of the formats, the call
\* returns no index and ends with InvalidDateFormat; the loop never passes
\* the bad row, and what was indexed before it is not returned.
C10_BadDateAbortsBatch ==
    /\ (\E i \in 1..Len(records) : BadDate(records[i])) =>
        /\ ~avail_ret.returned
        /\ avail_ret.map = EmptyMap
        /\ pc # "index"
        /\ pc = "raised" => error.kind = "InvalidDateFormat"
    /\ \A i \in 1..row_i : ~BadDate(records[i])
    /\ pc = "indexing" /\ row_i = Len(records) => error = NoError

\* the call has raised InvalidDateFormat with rows already indexed
C10_Witness ==
    /\ pc = "raised"
    /\ error.kind = "InvalidDateFormat"
    /\ row_i >= 1
    /\ ~avail_ret.returned

-----------------------------------------------------------------------------
(* Claims about the baseline store and the end-to-end run, checked under Spec *)

\* the data line csv.writer makes of [agent name, domain, date], the order in
\* which the tests write a row under the header Domain, Agent Name, Last
\* Available Date
TestRow(agent, dom, date) == writerow(<< <<agent>>, <<dom>>, date >>)

DataLines(file) == {file.lines[i] : i \in 2..Len(file.lines)}

Mentions(line, name) == \E j \in 1..Len(line) : line[j] = name

\* C4: at the end of a run, a baseline agent the availability CSV lists with
\* the current timestamp, the row written as the tests write it, is available
\* in its baseline domain; a baseline agent no line names is not_available.
C4_TestRowsAreAvailable ==
    pc = "done" =>
        \A d \in DOMAIN baseline_agents :
            \A a \in baseline_agents[d] :
                /\ TestRow(a, d, DateNow) \in DataLines(csv_path)
                       => a \in results[d].available
                /\ (\A line \in DataLines(csv_path) : ~Mentions(line, a))
                       => a \in results[d].not_available

\* C7: a load_baseline_windows or load_baseline_linux call that fails leaves
\* the committed rows of both tables as they were before the call.
C7_FailedLoadLeavesStore ==
    [][load_result'.error # NoError => db' = db]_vars

\* a load has failed on an INSERT, after its DELETE removed rows, and the
\* table still holds rows
C7_Witness ==
    /\ load_result.error.kind = "IntegrityError"
    /\ load_result.deleted >= 1
    /\ db[load_result.table] # {}

\* the (domain, agent_name) records validate_baseline_csv returns for file
CsvPairs(file) ==
    LET recs == validate_baseline_csv(file).records IN
    {recs[i] : i \in 1..Len(recs)}

\* C8: after a successful load, get_baseline_agents of that table returns
\* exactly the (domain, agent) pairs of the loaded CSV, grouped by domain.
C8_LoadReplacesTable ==
    (load_result.table # "" /\ load_result.error = NoError) =>
        LET got == get_baseline_agents(db[load_result.table])
            pairs == CsvPairs(load_result.csv)
        IN /\ \A p \in pairs : p[1] \in DOMAIN got /\ p[2] \in got[p[1]]
           /\ \A d \in DOMAIN got : \A a \in got[d] : <<d, a>> \in pairs

\* a successful load whose DELETE removed more rows than the table now holds
C8_Witness ==
    /\ load_result.table # ""
    /\ load_result.error = NoError
    /\ load_result.deleted > Cardinality(db[load_result.table])

\* C9: a baseline CSV that is valid but for a (domain, agent_name) pair it
\* holds twice is loaded without error, the pair stored once.
C9_DuplicatePairsCollapse ==
    LET validated == validate_baseline_csv(load_result.csv) IN
    ( /\ load_result.table # ""
      /\ validated.error = NoError
      /\ \E i, j \in 1..Len(validated.records) :
            i < j /\ validated.records[i] = validated.records[j] )
    => /\ load_result.error = NoError
       /\ db[load_result.table] = CsvPairs(load_result.csv)

-----------------------------------------------------------------------------
(* Claims about check_availability, checked under SpecCheck *)

\* file is parsed and every date of it resolved without an exception
FeedReadable(file) ==
    LET parsed == validate_availability_csv(file) IN
    /\ parsed.error = NoError
    /\ \A i \in 1..Len(parsed.records) :
        parse_available_date(parsed.records[i].available_date_str).error = NoError

\* C11: no report (console, spreadsheet, document) is emitted, and no result
\* computed for either OS class, unless both availability feeds were parsed
\* and date-resolved successfully; a run in which a feed fails ends raised.
C11_NoReportUnlessBothFeedsRead ==
    /\ (DOMAIN outputs # {} \/ windows_results # EmptyMap \/ linux_results # EmptyMap)
           => FeedReadable(windows_csv) /\ FeedReadable(linux_csv)
    /\ pc \in {"check_results", "console", "xlsx", "returned_true"}
           => FeedReadable(windows_csv) /\ FeedReadable(linux_csv)
    /\ pc = "raised" => DOMAIN outputs = {}

\* the Windows feed was read, the Linux feed failed, and the run ended with
\* nothing emitted although the Windows baseline has agents
C11_Witness ==
    /\ pc = "raised"
    /\ windows_availability.returned
    /\ windows_baseline # EmptyMap
    /\ ~FeedReadable(linux_csv)
    /\ DOMAIN outputs = {}

-----------------------------------------------------------------------------
(* Claims about validate_baseline_csv, checked under SpecBaselineCsv *)

\* validate_baseline_csv has been called on a file that has a header row
BaselineHeaderRead ==
    /\ validation.function = "validate_baseline_csv"
    /\ validation.csv_path.exists
    /\ validation.csv_path.rows # <<>>

\* a column name with surrounding whitespace, then a byte-order mark, removed
ColumnName(raw) == Str(strip(strip(raw, Whitespace), {BOM}))

ColumnNames(header) == [i \in 1..Len(header) |-> ColumnName(header[i])]

\* C12: on a file with a header row, validate_baseline_csv fails with
\* HeaderMismatch exactly when the column names, whitespace and BOM stripped,
\* are not <<Domain, Agent Name>> in that order and case; it then returns
\* no record.
C12_HeaderMismatchExactly ==
    BaselineHeaderRead =>
        /\ validation.error.kind = "HeaderMismatch"
               <=> ColumnNames(validation.csv_path.rows[1]) # <<"Domain", "Agent Name">>
        /\ validation.error.kind = "HeaderMismatch" => validation.records = <<>>

\* a header that differs only in letter case has been refused, and so has
\* one with the columns swapped
C12_Witness ==
    /\ BaselineHeaderRead
    /\ validation.error.kind = "HeaderMismatch"
    /\ ColumnNames(validation.csv_path.rows[1])
           \in {<<"domain", "Agent Name">>, <<"Agent Name", "Domain">>}
    /\ Len(validation.csv_path.rows) > 1

\* the data rows of a baseline file that are not blank lines, in file order
RECURSIVE DataRows(_)
DataRows(rows) ==
    IF rows = <<>> THEN <<>>
    ELSE IF Head(rows) = <<>> THEN DataRows(Tail(rows))
    ELSE <<Head(rows)>> \o DataRows(Tail(rows))

\* the trimmed text of field k of a row, "" when the row has no such field
Trimmed(row, k) == IF k > Len(row) THEN "" ELSE Str(strip(row[k], Whitespace))

\* row yields a non-empty domain and a non-empty agent name
Complete(row) == Trimmed(row, 1) # "" /\ Trimmed(row, 2) # ""

\* C13: when the column names equal Domain and Agent Name after stripping
\* surrounding whitespace and every data row has non-empty fields, the call
\* succeeds and returns the trimmed (domain, agent_name) of each data row, in
\* file order.
C13_PaddedHeaderParses ==
    LET file == validation.csv_path
        data == DataRows(Tail(file.rows))
    IN ( /\ BaselineHeaderRead
         /\ [i \in 1..Len(file.rows[1]) |-> Str(strip(file.rows[1][i], Whitespace))]
                = <<"Domain", "Agent Name">>
         /\ data # <<>>
         /\ \A i \in 1..Len(data) : Complete(data[i]) )
       => /\ validation.error = NoError
          /\ validation.records =
                 [i \in 1..Len(data) |-> <<Trimmed(data[i], 1), Trimmed(data[i], 2)>>]

\* C14: under the header Domain, Agent Name, a data row that does not yield
\* a non-empty domain and a non-empty agent name, a row with a missing field
\* included, makes the call fail with EmptyField and return no record.
C14_IncompleteRowIsEmptyField ==
    LET file == validation.csv_path
        data == DataRows(Tail(file.rows))
    IN ( /\ BaselineHeaderRead
         /\ file.rows[1] = BaselineHeader
         /\ \E i \in 1..Len(data) : ~Complete(data[i]) )
       => /\ validation.error.kind = "EmptyField"
          /\ validation.records = <<>>

\* the file positions (header = 1) of the rows that are not blank lines and
\* do not yield a non-empty domain and agent name
OffendingRows(file) ==
    {i \in 2..Len(file.rows) : file.rows[i] # <<>> /\ ~Complete(file.rows[i])}

\* C15: the row number of an EmptyField error is the position in the file,
\* the header being row 1, of the first offending row.
C15_RowNumberIsFilePosition ==
    ( /\ BaselineHeaderRead
      /\ validation.error.kind = "EmptyField" )
    => /\ OffendingRows(validation.csv_path) # {}
       /\ validation.error.row =
              CHOOSE i \in OffendingRows(validation.csv_path) :
                  \A j \in OffendingRows(validation.csv_path) : i <= j

\* C16: a file with a valid header and no data row fails with NoRecords, and
\* a call that succeeds returns at least one record.
C16_NoRecordsOnEmptyBody ==
    /\ ( /\ BaselineHeaderRead
         /\ ColumnNames(validation.csv_path.rows[1]) = <<"Domain", "Agent Name">>
         /\ DataRows(Tail(validation.csv_path.rows)) = <<>> )
       => /\ validation.error.kind = "NoRecords"
          /\ validation.records = <<>>
    /\ ( /\ validation.function = "validate_baseline_csv"
         /\ validation.error = NoError )
       => validation.records # <<>>

\* NoRecords has been raised for a file whose header is followed by blank
\* lines only
C16_Witness ==
    /\ BaselineHeaderRead
    /\ validation.error.kind = "NoRecords"
    /\ Len(validation.csv_path.rows) > 1

-----------------------------------------------------------------------------
(* Claims about empty availability files, checked under SpecCheck *)

\* an availability file of zero bytes, or one that is its header line alone
EmptyFeed(file) ==
    /\ file.exists
    /\ \/ ~file.bom /\ file.lines = <<>>
       \/ file.lines = <<HeaderLine>>

\* every baseline agent is not_available in os_results and every domain is
\* reported with percentage 0 in the summaries of one report
AllNotAvailable(baseline, os_results, summaries) ==
    /\ DOMAIN os_results = DOMAIN baseline
    /\ \A d \in DOMAIN baseline :
        /\ os_results[d].available = {}
        /\ os_results[d].not_available = baseline[d]
        /\ summaries[d].not_available = baseline[d]
        /\ summaries[d].percentage.num = 0

\* C17: an availability file that is zero bytes or header only raises
\* nothing; its index is empty, and the reports then show every baseline
\* agent of that OS class not_available with percentage 0.
C17_EmptyFeedIsNoError ==
    /\ (pc = "raised" /\ ~windows_availability.returned) => ~EmptyFeed(windows_csv)
    /\ (pc = "raised" /\ windows_availability.returned) => ~EmptyFeed(linux_csv)
    /\ (windows_availability.returned /\ EmptyFeed(windows_csv))
           => windows_availability.map = EmptyMap
    /\ (linux_availability.returned /\ EmptyFeed(linux_csv))
           => linux_availability.map = EmptyMap
    /\ \A kind \in DOMAIN outputs \cap {"console", "docx"} :
        /\ EmptyFeed(windows_csv) =>
               AllNotAvailable(windows_baseline, windows_results, outputs[kind].Windows)
        /\ EmptyFeed(linux_csv) =>
               AllNotAvailable(linux_baseline, linux_results, outputs[kind].Linux)

\* the reports are out for a zero-byte Windows file and a header-only Linux
\* file, both tables holding agents
C17_Witness ==
    /\ "docx" \in DOMAIN outputs
    /\ windows_csv.exists /\ windows_csv.lines = <<>>
    /\ linux_csv.lines = <<HeaderLine>>
    /\ windows_baseline # EmptyMap
    /\ linux_baseline # EmptyMap

-----------------------------------------------------------------------------
(* Claims about validate_availability_csv, checked under                   *)
(* SpecAvailabilityCsv                                                      *)

\* validate_availability_csv has been called on a file that has a header line
AvailabilityHeaderRead ==
    /\ validation.function = "validate_availability_csv"
    /\ validation.csv_path.exists
    /\ validation.csv_path.lines # <<>>

\* line[i] lies between double quotes
InsideQuotes(line, i) ==
    Cardinality({j \in 1..(i - 1) : line[j] = Quote}) % 2 = 1

\* the positions of the commas of line that lie outside double quotes
Separators(line) ==
    {i \in 1..Len(line) : line[i] = Comma /\ ~InsideQuotes(line, i)}

\* the letter-case spellings of a column name among the headers of the model
Spellings(name) ==
    CASE name = "Domain" -> {"Domain", "DOMAIN", "domain"}
      [] name = "Agent Name" -> {"Agent Name", "agent name"}
      [] name = "Last Available Date" -> {"Last Available Date", "last available date"}

\* the columns of a header line none of whose commas is quoted: the texts
\* between its commas, stripped of whitespace, BOM and quotes
StrippedColumns(line) ==
    LET cols == split(strip(line, Whitespace), 1, <<>>) IN
    [i \in 1..Len(cols) |-> Str(strip_header(cols[i]))]

\* C18: a header is accepted exactly when its columns, stripped of
\* whitespace, BOM and quotes, are Domain, Agent Name, Last Available Date
\* in that order and in any letter case; a refused header fails with
\* HeaderMismatch, whose message shows the stripped columns in their own case.
C18_HeaderAcceptedInAnyCase ==
    LET line == validation.csv_path.lines[1]
        cols == StrippedColumns(line)
    IN ( /\ AvailabilityHeaderRead
         /\ \A i \in 1..Len(line) : line[i] = Comma => ~InsideQuotes(line, i) )
       => /\ validation.error.kind # "HeaderMismatch"
                <=> /\ Len(cols) = Len(AVAILABILITY_COLUMNS)
                    /\ \A i \in 1..Len(cols) : cols[i] \in Spellings(AVAILABILITY_COLUMNS[i])
          /\ validation.error.kind = "HeaderMismatch"
                => validation.got = cols /\ validation.records = <<>>

\* a header in other letter case has been accepted and its rows returned
C18_Witness ==
    /\ AvailabilityHeaderRead
    /\ validation.csv_path.lines[1][1] = "DOMAIN"
    /\ validation.error = NoError
    /\ validation.records # <<>>

\* C19: the header's columns are the texts between its commas outside double
\* quotes, so a header with fewer or more than three such columns is refused
\* with HeaderMismatch.
C19_HeaderSplitIsQuoteAware ==
    AvailabilityHeaderRead =>
        ( Cardinality(Separators(strip(validation.csv_path.lines[1], Whitespace))) # 2
              => validation.error.kind = "HeaderMismatch" )

\* the field of line from position from to position to, its double quotes
\* left out
FieldBetween(line, from, to) ==
    SelectSeq(SubSeq(line, from, to), LAMBDA c : c # Quote)

\* the fields of line: what lies between consecutive separators
Fields(line) ==
    LET seps == Separators(line)
        RECURSIVE From(_)
        From(start) ==
            IF \E i \in seps : i >= start
            THEN LET next == CHOOSE i \in seps :
                                 i >= start /\ \A j \in seps : j >= start => i <= j
                 IN <<FieldBetween(line, start, next - 1)>> \o From(next + 1)
            ELSE <<FieldBetween(line, start, Len(line))>>
    IN From(1)

\* the data lines of the validated file, stripped as line 231 strips them
StrippedDataLines ==
    {strip(validation.csv_path.lines[i], Whitespace) :
        i \in 2..Len(validation.csv_path.lines)}

\* C20: the tokenizer drops every double quote, ends a field at each comma
\* outside double quotes and keeps every other character; a line of three
\* quoted fields whose third holds a comma gives 3 fields, and the record
\* returned for it has the third field verbatim.
C20_TokenizerTogglesOnQuotes ==
    AvailabilityHeaderRead =>
        /\ \A line \in StrippedDataLines :
            split_quoted(line, 1, <<>>, FALSE) = Fields(line)
        /\ \A third \in {DateFeedBoundary, <<"x", Comma, "y">>} :
            ( /\ validation.error = NoError
              /\ validation.csv_path.lines =
                     <<validation.csv_path.lines[1],
                       Quoted(<<"D1">>) \o <<Comma>> \o Quoted(<<"A1">>)
                           \o <<Comma>> \o Quoted(third)>> )
            => validation.records =
                   <<[domain |-> "D1", agent_name |-> "A1",
                      available_date_str |-> third]>>

\* a record has been returned for a line of three quoted fields whose third,
\* x,y, has a comma and no space after it
C20_Witness ==
    /\ AvailabilityHeaderRead
    /\ validation.error = NoError
    /\ Len(validation.records) = 1
    /\ validation.records[1].available_date_str = <<"x", Comma, "y">>

\* the data lines of the validated file that are not blank, in file order,
\* each stripped as line 231 strips it
NonBlankLines ==
    SelectSeq([i \in 1..(Len(validation.csv_path.lines) - 1) |->
                  strip(validation.csv_path.lines[i + 1], Whitespace)],
              LAMBDA line : line # <<>>)

RECURSIVE Rejoined(_)
\* the fields, each trimmed, with a comma and one space between neighbours
Rejoined(fields) ==
    IF Len(fields) = 1 THEN strip_field(fields[1])
    ELSE strip_field(fields[1]) \o <<Comma, " ">> \o Rejoined(Tail(fields))

\* C21: when the call returns, the record of every data line is its first
\* field as domain, its second as agent_name, and as date its fields from
\* the third on, each trimmed and joined with comma-space; an unquoted
\* Jan 31,2026 @ 06:00:00.000 comes back with exactly one comma-space at the
\* split, with no space in the file or with several.
C21_DateRejoinedWithCommaSpace ==
    (AvailabilityHeaderRead /\ validation.error = NoError) =>
        /\ Len(validation.records) = Len(NonBlankLines)
        /\ \A i \in 1..Len(NonBlankLines) :
              LET fields == Fields(NonBlankLines[i])
                  record == validation.records[i]
              IN /\ Len(fields) >= 3
                 /\ record.domain = Str(strip_field(fields[1]))
                 /\ record.agent_name = Str(strip_field(fields[2]))
                 /\ record.available_date_str = Rejoined(SubSeq(fields, 3, Len(fields)))
                 /\ ( /\ Len(fields) = 4
                      /\ strip_field(fields[3]) = <<"Jan 31">>
                      /\ strip_field(fields[4]) = <<"2026 @ 06:00:00.000">> )
                    => record.available_date_str = DateFeedBoundary

\* records have been returned for an unquoted date with no space after its
\* comma and for one with spaces on both sides of it
C21_Witness ==
    /\ AvailabilityHeaderRead
    /\ validation.error = NoError
    /\ Len(validation.records) = 2
    /\ validation.csv_path.lines[2] =
           <<"D1", Comma, "A1", Comma, "Jan 31", Comma, "2026 @ 06:00:00.000">>
    /\ validation.csv_path.lines[3] =
           <<"D1", Comma, "A1", Comma, "Jan 31", " ", Comma, " ", " ",
             "2026 @ 06:00:00.000">>
    /\ \A i \in 1..2 : validation.records[i].available_date_str = DateFeedBoundary

\* the file positions, the header being line 1, of the data lines that are
\* not blank and have fewer than three fields
ShortLines ==
    {i \in 2..Len(validation.csv_path.lines) :
        LET line == strip(validation.csv_path.lines[i], Whitespace) IN
        line # <<>> /\ Len(Fields(line)) < 3}

\* C22: when the header is accepted and some non-blank data line has fewer
\* than three fields, the call fails, with MalformedRow unless an earlier
\* line has failed before; MalformedRow reports the position in the file of
\* the first such line, the header being row 1 and blank lines counted.
C22_MalformedRowAtFilePosition ==
    (AvailabilityHeaderRead /\ validation.error.kind # "HeaderMismatch") =>
        /\ validation.error.kind = "MalformedRow"
              => /\ validation.error.row \in ShortLines
                 /\ \A i \in ShortLines : validation.error.row <= i
        /\ ShortLines # {}
              => \/ validation.error.kind = "MalformedRow"
                 \/ /\ validation.error.kind = "EmptyField"
                    /\ \A i \in ShortLines : validation.error.row < i

\* a line of two fields after a blank line has failed as row 3
C22_Witness ==
    /\ AvailabilityHeaderRead
    /\ Len(validation.csv_path.lines) = 3
    /\ strip(validation.csv_path.lines[2], Whitespace) = <<>>
    /\ validation.csv_path.lines[3] = <<"D1", Comma, "A1">>
    /\ validation.error = Raise("MalformedRow", 3)

\* whitespace and both quote characters
WhitespaceAndQuotes == Whitespace \cup {Quote, Apostrophe}

\* C23: every domain and agent_name returned is its field with all leading
\* and trailing whitespace and quote characters removed, and is not empty;
\* no record is returned when the domain or agent_name field of some data
\* line has nothing but whitespace and quote characters.
C23_NamesTrimmedAndNonEmpty ==
    (AvailabilityHeaderRead /\ validation.error.kind # "HeaderMismatch") =>
        /\ validation.error = NoError =>
              \A i \in 1..Len(validation.records) :
                  LET fields == Fields(NonBlankLines[i])
                      record == validation.records[i]
                  IN /\ record.domain # "" /\ record.agent_name # ""
                     /\ record.domain = Str(strip(fields[1], WhitespaceAndQuotes))
                     /\ record.agent_name = Str(strip(fields[2], WhitespaceAndQuotes))
        /\ ( \E i \in 1..Len(NonBlankLines) :
                LET fields == Fields(NonBlankLines[i]) IN
                /\ Len(fields) >= 3
                /\ \E k \in 1..2 : strip(fields[k], WhitespaceAndQuotes) = <<>> )
            => validation.error # NoError /\ validation.records = <<>>

-----------------------------------------------------------------------------
(* Claims about parse_available_date, checked under SpecDate *)

\* the date string without the whitespace around it
TrimmedDate == Str(strip(date_ret.date_str, Whitespace))

\* the places in date_formats of the formats strptime accepts text under
Matching(text) ==
    {k \in 1..Len(date_formats) :
        \E e \in StrptimeTable : e[1] = date_formats[k] /\ e[2] = text}

\* C24: the call returns the instant the trimmed string has under the first
\* of the eight formats that matches it, and fails with InvalidDateFormat
\* exactly when no format matches; a May date, which matches under the
\* abbreviated and under the full month name, is read under the earlier.
C24_FirstMatchingFormatDecides ==
    date_ret.called =>
        LET matching == Matching(TrimmedDate) IN
        /\ date_ret.error.kind = "InvalidDateFormat" <=> matching = {}
        /\ matching # {} =>
              LET first == CHOOSE k \in matching : \A j \in matching : k <= j IN
              /\ date_ret.error = NoError
              /\ <<date_formats[first], TrimmedDate, date_ret.value>> \in StrptimeTable

\* a padded May date, matching two formats, has been parsed
C24_Witness ==
    /\ date_ret.called
    /\ date_ret.date_str = <<" ", "May 01, 2026 @ 06:00:00.000", "\n">>
    /\ Cardinality(Matching(TrimmedDate)) = 2
    /\ date_ret.error = NoError
    /\ date_ret.value = 2166

-----------------------------------------------------------------------------
(* Claims about the reports, checked under SpecReport *)

\* the results a report was made from, by OS class
ReportedResults == [Windows |-> windows_results, Linux |-> linux_results]

\* C25: every percentage shown on the console and in the document is a
\* fraction with a non-zero denominator, is 0 for a domain whose total is 0
\* and equals 100 * |available| / total otherwise, exactly, and lies
\* between 0 and 100.
C25_PercentageGuardedAndExact ==
    \A kind \in DOMAIN outputs \cap {"console", "docx"} :
        \A os \in {"Windows", "Linux"} :
            \A d \in DOMAIN outputs[kind][os] :
                LET shown == outputs[kind][os][d].percentage
                    result == ReportedResults[os][d]
                IN /\ shown.den > 0
                   /\ result.total = 0 => shown.num = 0
                   /\ result.total > 0 =>
                         shown.num * result.total =
                             100 * Cardinality(result.available) * shown.den
                   /\ 0 <= shown.num /\ shown.num <= 100 * shown.den

\* the console has shown 0 for a domain without agents and 50 for a domain
\* with one of its two agents available
C25_Witness ==
    /\ "console" \in DOMAIN outputs
    /\ \E d1, d2 \in DOMAIN windows_results :
          /\ windows_results[d1].total = 0
          /\ outputs["console"]["Windows"][d1].percentage.num = 0
          /\ windows_results[d2].total = 2
          /\ Cardinality(windows_results[d2].available) = 1
          /\ outputs["console"]["Windows"][d2].percentage = [num |-> 100, den |-> 2]

-----------------------------------------------------------------------------
(* What calculate_availability reads of the index, checked under           *)
(* SpecClassify                                                            *)

\* the (agent_name, domain) keys of the baseline
BaselinePairs ==
    {key \in Agents \X Domains :
        key[2] \in DOMAIN baseline_agents /\ key[1] \in baseline_agents[key[2]]}

\* two indexes with the same entries under the keys of the baseline
SameOnBaseline(m1, m2) ==
    \A key \in BaselinePairs :
        /\ key \in DOMAIN m1 <=> key \in DOMAIN m2
        /\ key \in DOMAIN m1 => m1[key] = m2[key]

\* the names a domain result mentions
Named(dr) ==
    dr.available \cup dr.not_available \cup DOMAIN dr.last_available_dates

\* C26: the step that classifies an agent gives the same domain result
\* under every index that has the same entries as the feed's under the
\* (agent_name, domain) keys of the baseline, whatever else it holds; the
\* results are keyed by baseline domains only and name only the baseline
\* agents of their domain.
C26_OnlyBaselineKeysAreRead ==
    /\ [][ (pc = "agents" /\ agents_left' # agents_left) =>
             \A other \in AllIndexes :
                 SameOnBaseline(avail_ret.map, other) =>
                     domain_results' =
                         classify_agent(domain_results, agent_name', domain,
                                        other, clock) ]_vars
    /\ [] ( /\ DOMAIN results \subseteq DOMAIN baseline_agents
            /\ \A d \in DOMAIN results : Named(results[d]) \subseteq baseline_agents[d]
            /\ pc = "agents" => Named(domain_results) \subseteq baseline_agents[domain] )

\* a call has returned whose index held an entry for an agent outside the
\* baseline and an entry for a baseline agent under another domain
C26_Witness ==
    /\ pc = "done"
    /\ \E d \in DOMAIN results : results[d].available # {}
    /\ \E key \in DOMAIN avail_ret.map :
          \A d \in DOMAIN baseline_agents : key[1] \notin baseline_agents[d]
    /\ \E key \in DOMAIN avail_ret.map \ BaselinePairs :
          \E d \in DOMAIN baseline_agents : key[1] \in baseline_agents[d]

-----------------------------------------------------------------------------
(* The two tables, checked under Spec *)

\* the step is a call of the load function of table
LoadOf(table) ==
    /\ pc = "menu" /\ pc' = "menu"
    /\ load_result'.table = table

\* C27: a call of load_baseline_windows, returning or raising, leaves the
\* rows of the Linux table as they were, and a call of load_baseline_linux
\* leaves the rows of the Windows table as they were.
C27_LoadLeavesOtherTable ==
    [][ /\ LoadOf(WINDOWS_TABLE) => db'[LINUX_TABLE] = db[LINUX_TABLE]
        /\ LoadOf(LINUX_TABLE) => db'[WINDOWS_TABLE] = db[WINDOWS_TABLE] ]_vars

\* load_baseline_windows has replaced rows of its table while the Linux
\* table held other rows
C27_Witness ==
    /\ load_result.table = WINDOWS_TABLE
    /\ load_result.error = NoError
    /\ load_result.deleted >= 1
    /\ db[LINUX_TABLE] # {}
    /\ db[LINUX_TABLE] # db[WINDOWS_TABLE]

-----------------------------------------------------------------------------
(* Option 3 of the menu, checked under SpecMain *)

\* C28: every file main has unlinked is a placeholder it wrote itself, and
\* none is a file the user supplied as an availability CSV.
C28_OnlyOwnPlaceholderDeleted ==
    \A name \in unlinked : name \in created /\ name \notin supplied

=============================================================================
